---- MODULE Spec2Model ----
(***************************************************************************)
(* A model of the dk_shell command interpreter (src/src/shell.cpp,         *)
(* src/src/process.cpp): the tokenizer Shell::parse_input, the pipeline    *)
(* executor Shell::run_commands, Shell::cleanup / Process::~Process and    *)
(* the interactive loop Shell::run, together with the part of the          *)
(* operating system they act on (the interpreter's descriptor table and    *)
(* the child processes).                                                    *)
(*                                                                         *)
(* A command line is a sequence of chunks.  A chunk is one delimiter       *)
(* character (" ", "\t", ";", "|") or a non-empty run of ordinary          *)
(* characters; a token is the concatenation of the chunks between two      *)
(* delimiters, read from the line buffer the way C reads a string.         *)
(***************************************************************************)
EXTENDS Integers, Sequences, FiniteSets, TLC

VARIABLES
  pc,            \* position of the interpreter in Shell::run / run_commands
  raw,           \* the line as read_input returned it (after sanitize)
  line,          \* the line buffer; parse_input writes NULs into it
  process_list,  \* Shell::process_list
  idx,           \* run_commands: position of the for loop in process_list
  pids,          \* run_commands: std::vector<pid_t> pids
  prev_read_end, \* run_commands: int prev_read_end
  is_quit,       \* run_commands: bool is_quit
  wkind,         \* which waitpid loop of run_commands is running
  widx,          \* position in that waitpid loop
  quit,          \* Shell::run: bool quit
  server_fd,     \* Shell::server_fd
  fds,           \* descriptor table of the interpreter process
  children,      \* the processes forked for the current line
  events,        \* what the interpreter did for the current line, in order
  closeLog,      \* the close() calls made on pipe descriptors for the line
  lines_read,    \* number of lines read so far
  stdin,         \* read_input: what is still to be read from standard input
  input,         \* read_input: what it returned
  files,         \* cloud_server: the regular files of the storage directory
  file_mutex,    \* cloud_server: 0 when free, else the thread that holds it
  server_up,     \* cloud_server: the server process is alive
  faults,        \* cloud_server: file system calls that have failed so far
  tpc,           \* cloud_server: position of each client thread
  net_in,        \* bytes each client has sent that its thread has not read
  net_out,       \* bytes each thread has sent to its client
  room,          \* send calls each socket still takes before send blocks
  script,        \* what each client sent in all
  cur,           \* locals of each thread: filename, filesize, buffer, to send
  cli            \* the shell as client 1 of the server: its remote handlers

\* The variables of the storage server.
serverVars == <<files, file_mutex, server_up, faults, tpc, net_in, net_out,
                room, script, cur>>

\* The variables of read_input on its own and of the storage server.
otherVars == <<stdin, input, serverVars, cli>>

vars == <<pc, raw, line, process_list, idx, pids, prev_read_end, is_quit,
          wkind, widx, quit, server_fd, fds, children, events,
          closeLog, lines_read, stdin, input, files, file_mutex, server_up,
          faults, tpc, net_in, net_out, room, script, cur, cli>>

----------------------------------------------------------------------------
(* Bounds and program constants *)

\* capacity of Process::cmdTokens
MaxTokens == 25
\* longest line enumerated chunk by chunk for parse_input
MaxParseLen == 5
\* longest tail enumerated after a descriptor filled up to the token cap
MaxTailLen == 2
\* number of commands (each followed by a separator) in a line given to Shell::run
MaxCmds == 3
\* number of lines Shell::run reads in one run
MaxLines == 2

NUL == "\\0"

\* size of the buffer read_input hands to fgets
MAX_LINE == 81
\* number of full fgets buffers in the longest line given to read_input
MaxBuffers == 2

\* What read_input returns: the null pointer, or a string.
Null == [isNull |-> TRUE, data |-> <<>>]
Str(chars) == [isNull |-> FALSE, data |-> chars]
Whitespace == {" ", "\t", "\n", "\r"}
Separators == {";", "|"}

SeqsUpTo(S, n) == UNION {[1..k -> S] : k \in 0..n}

----------------------------------------------------------------------------
(* Process (src/include/process.h, src/src/process.cpp) *)

\* cmdTokens holds the filled slots only; a token is a pointer into the line
\* buffer, i.e. the index of its first chunk.  pipe_fd is <<pipe_fd[0], pipe_fd[1]>>.
Process(in, out) ==
  [cmdTokens |-> <<>>, pipe_in |-> in, pipe_out |-> out,
   pipe_fd |-> <<-1, -1>>, tok_index |-> 0]

add_token_dropfirst(p, tok) ==
  IF tok = 0 THEN p
  ELSE IF p.tok_index < MaxTokens
       THEN [p EXCEPT !.cmdTokens = Append(@, tok), !.tok_index = @ + 1]
       ELSE [p EXCEPT !.cmdTokens = Append(Tail(@), tok)]

add_token(p, tok) ==
  IF tok = 0 THEN p
  ELSE IF p.tok_index < MaxTokens
       THEN [p EXCEPT !.cmdTokens = Append(@, tok), !.tok_index = @ + 1]
       ELSE p

\* The C string that starts at chunk `start` of buffer `buf`.
RECURSIVE CStr(_, _)
CStr(buf, start) ==
  IF start > Len(buf) \/ buf[start] = NUL THEN ""
  ELSE buf[start] \o CStr(buf, start + 1)

----------------------------------------------------------------------------
(* Shell::parse_input (src/src/shell.cpp) *)

\* What the store cmdTokens[tok_index] = nullptr does when tok_index is
\* MaxTokens, one past the array: nothing visible, or it overwrites the
\* members that follow the array (the two flags with 4-byte pointers, the
\* two flags and pipe_fd[0] with 8-byte pointers).
OOBOutcomes == {"none", "flags", "flags_fd0"}

NullTerminate(p, oob) ==
  IF p.tok_index < MaxTokens \/ oob = "none" THEN p
  ELSE IF oob = "flags"
       THEN [p EXCEPT !.pipe_in = FALSE, !.pipe_out = FALSE]
       ELSE [p EXCEPT !.pipe_in = FALSE, !.pipe_out = FALSE, !.pipe_fd[1] = 0]

\* Parser state: cmd (buffer), i, currProcess (live: not nullptr), tok_start
\* (0 is nullptr), list.
flush_cmd_keepdropped(st, i) ==
  IF st.tok_start # 0
  THEN [st EXCEPT !.cmd[i] = NUL,
                  !.currProcess = add_token(@, st.tok_start),
                  !.tok_start = IF st.currProcess.tok_index < MaxTokens
                                THEN 0 ELSE @]
  ELSE st

flush_cmd(st, i) ==
  IF st.tok_start # 0
  THEN [st EXCEPT !.cmd[i] = NUL,
                  !.currProcess = add_token(@, st.tok_start),
                  !.tok_start = 0]
  ELSE st

flush_process_keepempty(st, allocate_next, oob) ==
  [st EXCEPT !.list = Append(@, NullTerminate(st.currProcess, oob)),
             !.currProcess = Process(FALSE, FALSE),
             !.live = allocate_next]

flush_process(st, allocate_next, oob) ==
  [st EXCEPT !.list = IF st.currProcess.tok_index > 0
                      THEN Append(@, NullTerminate(st.currProcess, oob))
                      ELSE @,
             !.currProcess = Process(FALSE, FALSE),
             !.live = allocate_next]

PipeCase(st, i, oob) ==
  LET had_tokens == st.currProcess.tok_index > 0 \/ st.tok_start # 0
      s1 == flush_cmd(st, i)
  IN IF had_tokens
     THEN LET s2 == flush_process([s1 EXCEPT !.currProcess.pipe_out = TRUE],
                                  TRUE, oob)
          IN [s2 EXCEPT !.currProcess.pipe_in = TRUE]
     ELSE s1

SemiCase(st, i, oob) ==
  LET had_tokens == st.currProcess.tok_index > 0 \/ st.tok_start # 0
      s1 == flush_cmd(st, i)
  IN IF had_tokens
     THEN flush_process(s1, TRUE, oob)
     ELSE [s1 EXCEPT !.currProcess = Process(FALSE, FALSE)]

ParseChar_nopipe(st, i, oob) ==
  LET c == st.cmd[i]
  IN IF c \in Whitespace THEN flush_cmd(st, i)
     ELSE IF c = ";" THEN SemiCase(st, i, oob)
     ELSE IF st.tok_start = 0 THEN [st EXCEPT !.tok_start = i] ELSE st

\* The switch on cmd[i].
ParseChar(st, i, oob) ==
  LET c == st.cmd[i]
  IN IF c \in Whitespace THEN flush_cmd(st, i)
     ELSE IF c = "|" THEN PipeCase(st, i, oob)
     ELSE IF c = ";" THEN SemiCase(st, i, oob)
     ELSE IF st.tok_start = 0 THEN [st EXCEPT !.tok_start = i] ELSE st

\* for (size_t i = 0; i < n; ++i), with n = strlen(cmd) taken before the loop.
RECURSIVE ParseLoop(_, _, _)
ParseLoop(st, n, oob) ==
  IF st.i > n THEN st
  ELSE ParseLoop([ParseChar(st, st.i, oob) EXCEPT !.i = @ + 1], n, oob)

ParseEnd_nopostpass(st, oob) ==
  LET s1 == IF st.tok_start # 0
            THEN [st EXCEPT !.currProcess = add_token(@, st.tok_start),
                            !.tok_start = 0]
            ELSE st
  IN flush_process(s1, FALSE, oob)

\* The end of parse_input: the last token, the last descriptor, the post-pass.
\* The post-pass writes through `last` even after deleting it; the list no
\* longer holds that descriptor then.
ParseEnd(st, oob) ==
  LET s1 == IF st.tok_start # 0
            THEN [st EXCEPT !.currProcess = add_token(@, st.tok_start),
                            !.tok_start = 0]
            ELSE st
      s2 == flush_process(s1, FALSE, oob)
      l  == s2.list
  IN IF l = <<>> THEN s2
     ELSE LET last == l[Len(l)]
          IN IF last.pipe_in /\ last.tok_index = 0
             THEN [s2 EXCEPT !.list = SubSeq(l, 1, Len(l) - 1)]
             ELSE IF last.pipe_out
                  THEN [s2 EXCEPT !.list[Len(l)].pipe_out = FALSE]
                  ELSE s2

\* parse_input(cmd) with the list it appends to; yields the buffer and the list.
parse_input(cmd, list, oob) ==
  LET st0 == [cmd |-> cmd, currProcess |-> Process(FALSE, FALSE),
              tok_start |-> 0, list |-> list, live |-> TRUE, i |-> 1]
  IN ParseEnd(ParseLoop(st0, Len(cmd), oob), oob)

\* The tokens of descriptor p as strings, read from buffer buf.
TokensOf(buf, p) == [k \in 1..p.tok_index |-> CStr(buf, p.cmdTokens[k])]

----------------------------------------------------------------------------
(* The operating system: descriptor tables *)

\* What a descriptor number refers to.
Tty == [kind |-> "tty", id |-> 0, end |-> "-"]
Socket == [kind |-> "socket", id |-> 0, end |-> "-"]
NoObj == [kind |-> "none", id |-> 0, end |-> "-"]
PipeEnd(id, e) == [kind |-> "pipe", id |-> id, end |-> e]

\* A descriptor table is a function from the open descriptor numbers.
LowestFree(t) ==
  CHOOSE n \in 0..Cardinality(DOMAIN t) :
    n \notin DOMAIN t /\ \A m \in 0..(n - 1) : m \in DOMAIN t

Open(t, fd, obj) == (fd :> obj) @@ t
Drop(t, fd) == [k \in DOMAIN t \ {fd} |-> t[k]]
Lookup(t, fd) == IF fd \in DOMAIN t THEN t[fd] ELSE NoObj

\* close(fd) for each fd of fdseq in order, skipping -1 as close_pipe and
\* ~Process do; st is [t |-> table, log |-> the close calls so far].
RECURSIVE CloseAll(_, _)
CloseAll(st, fdseq) ==
  IF fdseq = <<>> THEN st
  ELSE LET fd == Head(fdseq)
       IN IF fd = -1 THEN CloseAll(st, Tail(fdseq))
          ELSE CloseAll([t |-> Drop(st.t, fd),
                         log |-> Append(st.log, [fd |-> fd, hit |-> Lookup(st.t, fd)])],
                        Tail(fdseq))

----------------------------------------------------------------------------
(* Builtin recognition and dispatch (src/src/shell.cpp) *)

Arg0(p) == CStr(line, p.cmdTokens[1])
HasCmd(p) == p.tok_index > 0

isQuit_prefix(p) == HasCmd(p) /\ line[p.cmdTokens[1]] = "quit"
isQuit(p) == HasCmd(p) /\ Arg0(p) = "quit"
isCd_never(p) == FALSE
isCd(p) == HasCmd(p) /\ Arg0(p) = "cd"
isBuiltin(p) ==
  HasCmd(p) /\ Arg0(p) \in {"cput", "cget", "crm", "cls", "ccon", "cdisc"}
IsExternal(p) == HasCmd(p) /\ ~isQuit(p) /\ ~isCd(p) /\ ~isBuiltin(p)

\* The characters of the strings isBuiltin accepts.
Spelling ==
  [cput |-> <<"c", "p", "u", "t">>, cget |-> <<"c", "g", "e", "t">>,
   crm |-> <<"c", "r", "m">>, cls |-> <<"c", "l", "s">>,
   ccon |-> <<"c", "c", "o", "n">>, cdisc |-> <<"c", "d", "i", "s", "c">>]

\* cmdTokens[0][1], the character handleBuiltin switches on; handleBuiltin
\* is called on the strings isBuiltin accepts only.
SecondChar_first(verb) == IF verb \in DOMAIN Spelling THEN Spelling[verb][1] ELSE "?"
SecondChar(verb) == IF verb \in DOMAIN Spelling THEN Spelling[verb][2] ELSE "?"

\* Addresses inet_pton accepts.
ValidIPs == {"127.0.0.1"}

\* What the system and the server can do to a handler: socket() fails,
\* connect() fails, a local file cannot be opened, send_line fails, the file
\* data is not transferred in full, read_line returns "" (no response), the
\* server answers with an ERROR line, the server answers with an OK line whose
\* size field is not a number, or everything works.
ConnOutcomes == {"socket_fail", "refused", "ok"}
TransferOutcomes ==
  {"file_fail", "send_fail", "data_fail", "no_response", "error_response",
   "malformed_ok", "ok"}
HandlerOutcomes == ConnOutcomes \cup TransferOutcomes

\* What a handler did, in order: a message on std::cerr ("usage",
\* "not_connected", "error"), a call on a descriptor ("socket", "connect",
\* "send", "recv", "close": arg is the descriptor number), a local file read
\* ("file_read") or created and written ("file_write"), or the end of the
\* interpreter process by an exception nothing catches ("terminate").
Effect(kind, fd) == [ev |-> kind, arg |-> fd]

\* The result of a handler: server_fd, the descriptor table, what it did.
Handled(sfd, t, evs) == [server_fd |-> sfd, fds |-> t, evs |-> evs]

handleCput_offbyone(p, sfd, t, o) ==
  IF p.tok_index < 2 THEN Handled(sfd, t, <<Effect("usage", -1)>>)
  ELSE IF sfd = -1 THEN Handled(sfd, t, <<Effect("not_connected", -1)>>)
  ELSE Handled(sfd, t, <<Effect("file_read", -1), Effect("send", sfd),
                         Effect("send", sfd), Effect("recv", sfd)>>)

handleCput(p, sfd, t, o) ==
  IF p.tok_index < 3 THEN Handled(sfd, t, <<Effect("usage", -1)>>)
  ELSE IF sfd = -1 THEN Handled(sfd, t, <<Effect("not_connected", -1)>>)
  ELSE IF o = "file_fail" THEN Handled(sfd, t, <<Effect("error", -1)>>)
  ELSE LET read == <<Effect("file_read", -1)>>
           hdr  == Effect("send", sfd)
           data == Effect("send", sfd)
           err  == Effect("error", -1)
       IN IF o = "send_fail" THEN Handled(sfd, t, read \o <<hdr, err>>)
          ELSE IF o = "data_fail" THEN Handled(sfd, t, read \o <<hdr, data, err>>)
          ELSE IF o = "no_response"
               THEN Handled(sfd, t, read \o <<hdr, data, Effect("recv", sfd), err>>)
               ELSE Handled(sfd, t, read \o <<hdr, data, Effect("recv", sfd)>>)

\* handleCcon: the new server_fd and descriptor table.
handleCcon_keepFailed(p, sfd, t, o) ==
  IF p.tok_index < 3 THEN Handled(sfd, t, <<Effect("usage", -1)>>)
  ELSE IF sfd # -1 THEN Handled(sfd, t, <<Effect("error", -1)>>)
  ELSE IF o = "socket_fail" THEN Handled(-1, t, <<Effect("error", -1)>>)
  ELSE LET s == LowestFree(t)
       IN IF o = "refused" \/ CStr(line, p.cmdTokens[2]) \notin ValidIPs
          THEN Handled(s, Open(t, s, Socket),
                       <<Effect("socket", s), Effect("error", -1)>>)
          ELSE Handled(s, Open(t, s, Socket),
                       <<Effect("socket", s), Effect("connect", s)>>)

handleCcon(p, sfd, t, o) ==
  IF p.tok_index < 3 THEN Handled(sfd, t, <<Effect("usage", -1)>>)
  ELSE IF sfd # -1 THEN Handled(sfd, t, <<Effect("error", -1)>>)
  ELSE IF o = "socket_fail" THEN Handled(-1, t, <<Effect("error", -1)>>)
  ELSE LET s == LowestFree(t)
       IN IF CStr(line, p.cmdTokens[2]) \notin ValidIPs
          THEN Handled(-1, t, <<Effect("socket", s), Effect("error", -1),
                                Effect("close", s)>>)
          ELSE IF o = "refused"
               THEN Handled(-1, t, <<Effect("socket", s), Effect("connect", s),
                                     Effect("error", -1), Effect("close", s)>>)
               ELSE Handled(s, Open(t, s, Socket),
                            <<Effect("socket", s), Effect("connect", s)>>)

handleCrm_disconnect(p, sfd, t, o) ==
  IF p.tok_index < 2 THEN Handled(sfd, t, <<Effect("usage", -1)>>)
  ELSE IF sfd = -1 THEN Handled(sfd, t, <<Effect("not_connected", -1)>>)
  ELSE IF o \in {"send_fail", "no_response"}
       THEN Handled(-1, Drop(t, sfd), <<Effect("send", sfd), Effect("error", -1),
                                        Effect("close", sfd)>>)
       ELSE Handled(sfd, t, <<Effect("send", sfd), Effect("recv", sfd)>>)

handleCrm(p, sfd, t, o) ==
  IF p.tok_index < 2 THEN Handled(sfd, t, <<Effect("usage", -1)>>)
  ELSE IF sfd = -1 THEN Handled(sfd, t, <<Effect("not_connected", -1)>>)
  ELSE IF o = "send_fail"
       THEN Handled(sfd, t, <<Effect("send", sfd), Effect("error", -1)>>)
       ELSE IF o = "no_response"
            THEN Handled(sfd, t, <<Effect("send", sfd), Effect("recv", sfd),
                                   Effect("error", -1)>>)
            ELSE Handled(sfd, t, <<Effect("send", sfd), Effect("recv", sfd)>>)

handleCget_nocheck(p, sfd, t, o) ==
  IF p.tok_index < 3 THEN Handled(sfd, t, <<Effect("usage", -1)>>)
  ELSE Handled(sfd, t, <<Effect("send", sfd), Effect("error", -1)>>)

handleCget(p, sfd, t, o) ==
  IF p.tok_index < 3 THEN Handled(sfd, t, <<Effect("usage", -1)>>)
  ELSE IF sfd = -1 THEN Handled(sfd, t, <<Effect("not_connected", -1)>>)
  ELSE LET req  == Effect("send", sfd)
           resp == Effect("recv", sfd)
           err  == Effect("error", -1)
       IN IF o = "send_fail" THEN Handled(sfd, t, <<req, err>>)
          ELSE IF o \in {"no_response", "error_response"}
               THEN Handled(sfd, t, <<req, resp, err>>)
          ELSE IF o = "malformed_ok"
               THEN Handled(sfd, t, <<req, resp, Effect("terminate", -1)>>)
               ELSE IF o \in {"data_fail", "file_fail"}
                    THEN Handled(sfd, t, <<req, resp, Effect("recv", sfd), err>>)
                    ELSE Handled(sfd, t, <<req, resp, Effect("recv", sfd),
                                           Effect("file_write", -1)>>)

handleCls(p, sfd, t, o) ==
  IF sfd = -1 THEN Handled(sfd, t, <<Effect("not_connected", -1)>>)
  ELSE LET req  == Effect("send", sfd)
           resp == Effect("recv", sfd)
           err  == Effect("error", -1)
       IN IF o = "send_fail" THEN Handled(sfd, t, <<req, err>>)
          ELSE IF o \in {"no_response", "error_response"}
               THEN Handled(sfd, t, <<req, resp, err>>)
               ELSE Handled(sfd, t, <<req, resp, Effect("recv", sfd)>>)

\* case 'd': cdisc
handleCdisc(p, sfd, t, o) ==
  IF sfd # -1 THEN Handled(-1, Drop(t, sfd), <<Effect("close", sfd)>>)
  ELSE Handled(sfd, t, <<Effect("error", -1)>>)

\* handleBuiltin: the switch on cmdTokens[0][1].
handleBuiltin(p, sfd, t, o) ==
  LET c == SecondChar(Arg0(p))
  IN CASE c = "p" -> handleCput(p, sfd, t, o)
       [] c = "g" -> handleCget(p, sfd, t, o)
       [] c = "r" -> handleCrm(p, sfd, t, o)
       [] c = "l" -> handleCls(p, sfd, t, o)
       [] c = "c" -> handleCcon(p, sfd, t, o)
       [] c = "d" -> handleCdisc(p, sfd, t, o)
       [] OTHER -> Handled(sfd, t, <<Effect("error", -1)>>)

----------------------------------------------------------------------------
(* Input lines *)

\* Lines handed to parse_input directly: every chunk sequence up to
\* MaxParseLen, and lines holding a descriptor of MaxTokens - 1 .. MaxTokens + 1
\* tokens, after a short head and before every short tail.
ParseAlphabet == {"a", " ", "\t", ";", "|"}

ManyTokens(k) == [i \in 1..(2 * k - 1) |-> IF i % 2 = 1 THEN "x" ELSE " "]

ParseLines ==
  SeqsUpTo(ParseAlphabet, MaxParseLen)
  \cup {h \o ManyTokens(k) \o t :
          h \in {<<>>, <<"a", "|">>},
          k \in (MaxTokens - 1)..(MaxTokens + 1),
          t \in SeqsUpTo(ParseAlphabet, MaxTailLen)}

\* Lines typed at the prompt: up to MaxCmds commands, each followed by a
\* separator, and a few longer lines with the remote-session verbs and with a
\* command of exactly MaxTokens tokens.
Commands == {<<>>, <<"ls">>, <<"cd">>, <<"quit">>}
Items == {c \o <<s>> : c \in Commands, s \in Separators}

RECURSIVE Flatten(_)
Flatten(ss) == IF ss = <<>> THEN <<>> ELSE Head(ss) \o Flatten(Tail(ss))

Ccon == <<"ccon", " ", "127.0.0.1", " ", "9000">>

SessionLines ==
  { Ccon, <<"cdisc">>, <<"cls">>, <<"ccon">>,
    <<"ls", "|">> \o Ccon \o <<"|", "ls">>,
    <<"ls", " ", "\t">>, <<" ">>,
    Ccon \o <<" ", "x">>, <<"ccon", " ", "localhost", " ", "9000">>,
    <<"cput", " ", "f", " ", "g">>, <<"cput", " ", "f">>,
    <<"cput", " ", "f", " ", "g", " ", "x">>,
    <<"cget", " ", "g", " ", "f">>, <<"cget", " ", "g">>,
    <<"crm", " ", "g">>, <<"crm">>, <<"crm", " ", "g", " ", "x">>,
    Ccon \o <<";", "cget", " ", "g", " ", "f", ";", "cdisc">>,
    <<"cput", " ", "f", " ", "g", ";", "cget", " ", "g", " ", "f", ";",
      "crm", " ", "g", ";", "cls">>,
    <<"exit", ";", "quit", "e", ";", "cd", "r", ";", "cls", "x", ";",
      "cd", ";", "cls", ";", "quit">>,
    <<"ls", "|", "ls", "|", "ls">> }

CapLines ==
  { <<"ls", " ">> \o ManyTokens(MaxTokens - 1),
    <<"ls", " ">> \o ManyTokens(MaxTokens - 1) \o <<"|", "ls">> }

RunLines ==
  {Flatten(is) : is \in SeqsUpTo(Items, MaxCmds)} \cup SessionLines \cup CapLines

\* Shell::sanitize: strip the trailing whitespace and line-ending characters.
RECURSIVE sanitize(_)
sanitize(cmd) ==
  IF cmd # <<>> /\ cmd[Len(cmd)] \in Whitespace
  THEN sanitize(SubSeq(cmd, 1, Len(cmd) - 1))
  ELSE cmd

----------------------------------------------------------------------------
(* Initial state *)

StdFds == (0 :> Tty) @@ (1 :> Tty) @@ (2 :> Tty)

InitRest ==
  /\ process_list = <<>>
  /\ idx = 1
  /\ pids = <<>>
  /\ prev_read_end = -1
  /\ is_quit = FALSE
  /\ wkind = "none"
  /\ widx = 1
  /\ quit = FALSE
  /\ server_fd = -1
  /\ fds = StdFds
  /\ children = <<>>
  /\ events = <<>>
  /\ closeLog = <<>>
  /\ lines_read = 0
  /\ input = Null

\* The shell has no session with a server under way.
NoClient ==
  [pc |-> "off", cmds |-> <<>>, all |-> <<>>, pos |-> 0, need |-> 0,
   verb |-> "none"]

\* No storage server is running next to the shell.
NoServer ==
  /\ cli = NoClient
  /\ files = {}
  /\ file_mutex = 0
  /\ server_up = FALSE
  /\ faults = 0
  /\ tpc = <<>>
  /\ net_in = <<>>
  /\ net_out = <<>>
  /\ room = <<>>
  /\ script = <<>>
  /\ cur = <<>>

\* Shell::Shell and the first test of while (!quit).
Init ==
  /\ pc = "prompt"
  /\ raw = <<>>
  /\ line = <<>>
  /\ InitRest
  /\ stdin = <<>>
  /\ NoServer

\* A direct call of parse_input on a fresh Shell, as the unit tests make it.
InitParse ==
  /\ pc = "parse"
  /\ raw \in ParseLines
  /\ line = raw
  /\ InitRest
  /\ stdin = <<>>
  /\ NoServer

\* The same, on the lines enumerated chunk by chunk only.
InitParseShort ==
  /\ pc = "parse"
  /\ raw \in SeqsUpTo(ParseAlphabet, MaxParseLen)
  /\ line = raw
  /\ InitRest
  /\ stdin = <<>>
  /\ NoServer

Event(e, a) == [ev |-> e, arg |-> a]

----------------------------------------------------------------------------
(* Shell::run: read_input, sanitize, parse_input *)

\* while (!quit) { display_prompt(); ...  The record of the previous line
\* (events, closeLog, children) ends here.
DisplayPrompt ==
  /\ pc = "prompt"
  /\ pc' = "read"
  /\ raw' = <<>>
  /\ events' = <<>>
  /\ closeLog' = <<>>
  /\ children' = <<>>
  /\ idx' = 1
  /\ pids' = <<>>
  /\ prev_read_end' = -1
  /\ is_quit' = FALSE
  /\ wkind' = "none"
  /\ widx' = 1
  /\ UNCHANGED <<line, process_list, quit, server_fd, fds, lines_read>>
  /\ UNCHANGED otherVars

\* read_input returns a line; an empty line is skipped (continue).
ReadLine ==
  /\ pc = "read"
  /\ lines_read < MaxLines
  /\ Lookup(fds, 0) = Tty
  /\ \E l \in RunLines :
       /\ raw' = sanitize(l)
       /\ line' = sanitize(l)
       /\ pc' = IF sanitize(l) = <<>> THEN "prompt" ELSE "parse"
  /\ lines_read' = lines_read + 1
  /\ UNCHANGED <<process_list, idx, pids, prev_read_end, is_quit, wkind, widx,
                 quit, server_fd, fds, children, events, closeLog>>
  /\ UNCHANGED otherVars

\* read_input returns nullptr (end of input or a read error): cleanup, break.
ReadEOF ==
  /\ pc = "read"
  /\ pc' = "done"
  /\ UNCHANGED <<raw, line, process_list, idx, pids, prev_read_end, is_quit,
                 wkind, widx, quit, server_fd, fds, children, events, closeLog,
                 lines_read>>
  /\ UNCHANGED otherVars

\* parse_input(input_line), then the entry of run_commands.
ParseInput ==
  /\ pc = "parse"
  /\ \E oob \in OOBOutcomes :
       LET r == parse_input(line, process_list, oob)
       IN /\ line' = r.cmd
          /\ process_list' = r.list
  /\ pc' = "loop"
  /\ idx' = 1
  /\ pids' = <<>>
  /\ prev_read_end' = -1
  /\ is_quit' = FALSE
  /\ UNCHANGED <<raw, wkind, widx, quit, server_fd, fds, children, events,
                 closeLog, lines_read>>
  /\ UNCHANGED otherVars

----------------------------------------------------------------------------
(* Shell::run_commands (src/src/shell.cpp) *)

AtDescriptor == pc = "loop" /\ process_list # <<>> /\ idx <= Len(process_list)

\* return from run_commands into Shell::run: quit = run_commands().
Return_true(value, evs) ==
  /\ quit' = TRUE
  /\ pc' = "cleanup"
  /\ events' = evs \o <<Event("return", 1)>>

Return(value, evs) ==
  /\ quit' = value
  /\ pc' = "cleanup"
  /\ events' = evs \o <<Event("return", IF value THEN 1 ELSE 0)>>

\* if (process_list.empty()) return false;
RunEmpty ==
  /\ pc = "loop"
  /\ process_list = <<>>
  /\ Return(FALSE, events)
  /\ UNCHANGED <<raw, line, process_list, idx, pids, prev_read_end, is_quit,
                 wkind, widx, server_fd, fds, children, closeLog, lines_read>>
  /\ UNCHANGED otherVars

\* The final loop, for (pid_t cpid : pids), starts at the first pid.
FinalWaitStart_skip(ps) == Len(ps) + 1
FinalWaitStart(ps) == 1

GoFinalWait ==
  /\ pc' = "wait"
  /\ wkind' = "final"
  /\ widx' = FinalWaitStart(pids)

\* if (isQuit(proc)) { is_quit = true; break; }
LoopQuit ==
  /\ AtDescriptor
  /\ isQuit(process_list[idx])
  /\ is_quit' = TRUE
  /\ events' = Append(events, Event("quit", idx))
  /\ GoFinalWait
  /\ UNCHANGED <<raw, line, process_list, idx, pids, prev_read_end, quit,
                 server_fd, fds, children, closeLog, lines_read>>
  /\ UNCHANGED otherVars

\* The end of the for loop.
LoopEnd ==
  /\ pc = "loop"
  /\ process_list # <<>>
  /\ idx > Len(process_list)
  /\ GoFinalWait
  /\ UNCHANGED <<raw, line, process_list, idx, pids, prev_read_end, is_quit,
                 quit, server_fd, fds, children, events, closeLog, lines_read>>
  /\ UNCHANGED otherVars

\* if (isCd(proc)) { handle_cd(proc); continue; }
\* chdir acts on the working directory, which is no part of this model.
LoopCd ==
  /\ AtDescriptor
  /\ ~isQuit(process_list[idx])
  /\ isCd(process_list[idx])
  /\ events' = Append(events, Event("cd", idx))
  /\ idx' = idx + 1
  /\ UNCHANGED <<pc, raw, line, process_list, pids, prev_read_end, is_quit,
                 wkind, widx, quit, server_fd, fds, children, closeLog,
                 lines_read>>
  /\ UNCHANGED otherVars

\* The handler ended the process: the exception left handleBuiltin,
\* run_commands, Shell::run and main.
Terminates(evs) == evs # <<>> /\ evs[Len(evs)].ev = "terminate"

\* if (isBuiltin(proc)) { handleBuiltin(proc); continue; }
LoopBuiltin ==
  /\ AtDescriptor
  /\ ~isQuit(process_list[idx])
  /\ ~isCd(process_list[idx])
  /\ isBuiltin(process_list[idx])
  /\ \E o \in HandlerOutcomes :
       LET r == handleBuiltin(process_list[idx], server_fd, fds, o)
       IN /\ server_fd' = r.server_fd
          /\ fds' = r.fds
          /\ events' = Append(events, Event("builtin", idx)) \o r.evs
          /\ pc' = IF Terminates(r.evs) THEN "aborted" ELSE pc
  /\ idx' = idx + 1
  /\ UNCHANGED <<raw, line, process_list, pids, prev_read_end, is_quit,
                 wkind, widx, quit, children, closeLog, lines_read>>
  /\ UNCHANGED otherVars

\* pipe(proc->pipe_fd) succeeding: the two lowest free descriptor numbers.
PipeFds(t) == <<LowestFree(t), LowestFree(Open(t, LowestFree(t), Tty))>>
WithPipe(t, id) ==
  Open(Open(t, PipeFds(t)[1], PipeEnd(id, "r")), PipeFds(t)[2], PipeEnd(id, "w"))

\* if (proc->pipe_out) { if (pipe(proc->pipe_fd) == -1) { ...; return false; } }
LoopPipeFail ==
  /\ AtDescriptor
  /\ IsExternal(process_list[idx])
  /\ process_list[idx].pipe_out
  /\ LET c == CloseAll([t |-> fds, log |-> closeLog], <<prev_read_end>>)
     IN /\ fds' = c.t
        /\ closeLog' = c.log
  /\ Return(FALSE, Append(events, Event("pipe_fail", idx)))
  /\ UNCHANGED <<raw, line, process_list, idx, pids, prev_read_end, is_quit,
                 wkind, widx, server_fd, children, lines_read>>
  /\ UNCHANGED otherVars

\* The descriptor after its pipe call, and the table.
Piped(p, t) == IF p.pipe_out THEN [p EXCEPT !.pipe_fd = PipeFds(t)] ELSE p
PipedFds(p, t, id) == IF p.pipe_out THEN WithPipe(t, id) ELSE t
PipeEvents(p, id) == IF p.pipe_out THEN <<Event("pipe", id)>> ELSE <<>>

\* fork() < 0: close the descriptors, wait for the children so far, return false.
LoopForkFail ==
  /\ AtDescriptor
  /\ IsExternal(process_list[idx])
  /\ LET p == Piped(process_list[idx], fds)
         c == CloseAll([t |-> PipedFds(process_list[idx], fds, idx), log |-> closeLog],
                       <<prev_read_end, p.pipe_fd[1], p.pipe_fd[2]>>)
     IN /\ process_list' = [process_list EXCEPT ![idx] = p]
        /\ fds' = c.t
        /\ closeLog' = c.log
        /\ events' = events \o PipeEvents(p, idx) \o <<Event("fork_fail", idx)>>
  /\ pc' = "wait"
  /\ wkind' = "fail"
  /\ widx' = 1
  /\ UNCHANGED <<raw, line, idx, pids, prev_read_end, is_quit, quit, server_fd,
                 children, lines_read>>
  /\ UNCHANGED otherVars

\* The child created by fork(): a copy of the interpreter, with its values of
\* proc and prev_read_end and its own copy of the descriptor table.
NewChild(p, prev, t, i) ==
  [idx |-> i, image |-> "shell", state |-> "forked", status |-> "none",
   proc |-> p, prev |-> prev, fdtab |-> t, waits |-> 0, how |-> "none"]

\* The parent block after a successful fork.
ParentCloses_keepWrite(p, prev) == <<prev>>
ParentCloses(p, prev) == IF p.pipe_out THEN <<p.pipe_fd[2], prev>> ELSE <<prev>>

SegmentEnd(p) == ~p.pipe_out

LoopSpawn ==
  /\ AtDescriptor
  /\ IsExternal(process_list[idx])
  /\ LET p == Piped(process_list[idx], fds)
         t == PipedFds(process_list[idx], fds, idx)
         pid == Len(children) + 1
         c == CloseAll([t |-> t, log |-> closeLog], ParentCloses(p, prev_read_end))
     IN /\ process_list' = [process_list EXCEPT ![idx] = p]
        /\ children' = Append(children, NewChild(p, prev_read_end, t, idx))
        /\ pids' = Append(pids, pid)
        /\ events' = events \o PipeEvents(p, idx) \o <<Event("fork", idx)>>
        /\ fds' = c.t
        /\ closeLog' = c.log
        /\ prev_read_end' = IF p.pipe_out THEN p.pipe_fd[1] ELSE -1
        /\ IF SegmentEnd(p)
           THEN /\ pc' = "wait"
                /\ wkind' = "segment"
                /\ widx' = 1
                /\ idx' = idx
           ELSE /\ idx' = idx + 1
                /\ UNCHANGED <<pc, wkind, widx>>
  /\ UNCHANGED <<raw, line, is_quit, quit, server_fd, lines_read>>
  /\ UNCHANGED otherVars

\* for (pid_t cpid : pids) { int st; waitpid(cpid, &st, 0); }
\* waitpid blocks until the child has exited; on a pid already waited for it
\* fails at once.
WaitPid ==
  /\ pc = "wait"
  /\ widx <= Len(pids)
  /\ children[pids[widx]].state = "exited"
  /\ children' = [children EXCEPT ![pids[widx]].waits = @ + 1]
  /\ events' = Append(events, Event("wait", pids[widx]))
  /\ widx' = widx + 1
  /\ UNCHANGED <<pc, raw, line, process_list, idx, pids, prev_read_end, is_quit,
                 wkind, quit, server_fd, fds, closeLog, lines_read>>
  /\ UNCHANGED otherVars

\* pids.clear() after the waitpid loop that ends a pipeline segment.
AfterSegmentWait_noclear(ps) == ps
AfterSegmentWait(ps) == <<>>

\* The end of a waitpid loop.
WaitDone ==
  /\ pc = "wait"
  /\ widx > Len(pids)
  /\ IF wkind = "segment"
     THEN /\ pids' = AfterSegmentWait(pids)
          /\ idx' = idx + 1
          /\ pc' = "loop"
          /\ UNCHANGED <<quit, events>>
     ELSE /\ Return(IF wkind = "final" THEN is_quit ELSE FALSE, events)
          /\ UNCHANGED <<pids, idx>>
  /\ UNCHANGED <<raw, line, process_list, prev_read_end, is_quit, wkind, widx,
                 server_fd, fds, children, closeLog, lines_read>>
  /\ UNCHANGED otherVars

----------------------------------------------------------------------------
(* The forked child: the pid == 0 branch of run_commands *)

\* What the child's calls can do: a dup2 fails, execvp fails, execvp succeeds.
ChildOutcomes == {"dup2_out_fail", "dup2_in_fail", "exec_fail", "exec_ok"}

\* _exit(EXIT_FAILURE)
ExitFailure(c, why) ==
  [c EXCEPT !.state = "exited", !.status = "EXIT_FAILURE", !.how = why]

\* The child's table after dup2 and the closes before execvp.
ChildTable(c) ==
  LET p == c.proc
      t1 == IF p.pipe_out THEN Open(c.fdtab, 1, Lookup(c.fdtab, p.pipe_fd[2])) ELSE c.fdtab
      t2 == IF p.pipe_in THEN Open(t1, 0, Lookup(t1, c.prev)) ELSE t1
      t3 == IF p.pipe_in THEN Drop(t2, c.prev) ELSE t2
  IN IF p.pipe_out THEN Drop(Drop(t3, p.pipe_fd[1]), p.pipe_fd[2]) ELSE t3

\* After execvp has failed: perror, _exit(EXIT_FAILURE).
AfterExecFail_fallthrough(c) == [c EXCEPT !.state = "in_loop", !.how = "exec_fail"]
AfterExecFail(c) == ExitFailure(c, "exec_fail")

\* The child from fork to execvp or _exit, for outcome o of its calls.
ChildRun(c, o) ==
  LET p == c.proc
  IN IF p.pipe_out /\ o = "dup2_out_fail" THEN ExitFailure(c, "dup2_fail")
     ELSE IF p.pipe_in /\ c.prev = -1 THEN ExitFailure(c, "no_prev_pipe")
     ELSE IF p.pipe_in /\ o = "dup2_in_fail" THEN ExitFailure(c, "dup2_fail")
     ELSE IF o = "exec_fail" THEN AfterExecFail([c EXCEPT !.fdtab = ChildTable(c)])
     ELSE [c EXCEPT !.state = "running", !.image = "program", !.how = "exec_ok",
                    !.fdtab = ChildTable(c)]

ChildSetup ==
  /\ \E k \in 1..Len(children) :
       /\ children[k].state = "forked"
       /\ \E o \in ChildOutcomes :
            children' = [children EXCEPT ![k] = ChildRun(children[k], o)]
  /\ UNCHANGED <<pc, raw, line, process_list, idx, pids, prev_read_end, is_quit,
                 wkind, widx, quit, server_fd, fds, events, closeLog, lines_read>>
  /\ UNCHANGED otherVars

\* The program the child became exits, with whatever status.
ChildExit ==
  /\ \E k \in 1..Len(children) :
       /\ children[k].state = "running"
       /\ children' = [children EXCEPT ![k].state = "exited", ![k].status = "any"]
  /\ UNCHANGED <<pc, raw, line, process_list, idx, pids, prev_read_end, is_quit,
                 wkind, widx, quit, server_fd, fds, events, closeLog, lines_read>>
  /\ UNCHANGED otherVars

----------------------------------------------------------------------------
(* Shell::read_input (src/src/shell.cpp) *)

\* The place of the first newline of a stream, 0 if it has none.
FirstNewline(s) ==
  IF \E i \in 1..Len(s) : s[i] = "\n"
  THEN CHOOSE i \in 1..Len(s) : s[i] = "\n" /\ \A j \in 1..(i - 1) : s[j] # "\n"
  ELSE 0

\* fgets(tempbuf, MAX_LINE, stdin): at most MAX_LINE - 1 characters, up to and
\* including a newline; the null pointer when nothing could be read (end of
\* input) or when the read fails.
fgets(rest, fails) ==
  LET nl == FirstNewline(rest)
      k  == IF nl # 0 /\ nl <= MAX_LINE - 1 THEN nl
            ELSE IF Len(rest) <= MAX_LINE - 1 THEN Len(rest) ELSE MAX_LINE - 1
  IN IF fails \/ rest = <<>>
     THEN [a |-> Null, rest |-> rest]
     ELSE [a |-> Str(SubSeq(rest, 1, k)), rest |-> SubSeq(rest, k + 1, Len(rest))]

\* The do-while loop of read_input; n counts the fgets calls, the failAt-th
\* fails (none when failAt is 0).
RECURSIVE ReadLoop(_, _, _, _)
ReadLoop(in, rest, n, failAt) ==
  LET r == fgets(rest, n = failAt)
  IN IF r.a.isNull THEN [input |-> in, rest |-> r.rest, failed |-> n = failAt]
     ELSE LET templen == Len(r.a.data)
              in2 == Str(in.data \o r.a.data)
          IN IF templen = MAX_LINE - 1 /\ r.a.data[MAX_LINE - 1] # "\n"
             THEN ReadLoop(in2, r.rest, n + 1, failAt)
             ELSE [input |-> in2, rest |-> r.rest, failed |-> FALSE]

read_input(rest, failAt) == ReadLoop(Null, rest, 1, failAt)

\* The streams given to read_input: a run of ordinary characters of a length
\* around a multiple of the fgets buffer, then the end of the stream, a
\* newline, or a newline and a second line.
BodyLens ==
  0..2 \cup {k * (MAX_LINE - 1) + d : k \in 1..MaxBuffers, d \in {-1, 0, 1}}
ReadTails == {<<>>, <<"\n">>, <<"\n", "a">>, <<"\n", "a", "\n">>, <<"\n", "\n">>}
ReadStreams == {[i \in 1..n |-> "a"] \o t : n \in BodyLens, t \in ReadTails}

\* A call of read_input on what is left of the stream; raw keeps the stream
\* as it was before the call, events tells whether a read failed.
ReadInput ==
  /\ pc = "read_input"
  /\ lines_read = 0 \/ ~input.isNull
  /\ \E failAt \in 0..(MaxBuffers + 1) :
       LET r == read_input(stdin, failAt)
       IN /\ input' = r.input
          /\ stdin' = r.rest
          /\ events' = IF r.failed THEN <<Event("read_error", failAt)>> ELSE <<>>
  /\ raw' = stdin
  /\ lines_read' = lines_read + 1
  /\ UNCHANGED <<pc, line, process_list, idx, pids, prev_read_end, is_quit,
                 wkind, widx, quit, server_fd, fds, children, closeLog>>
  /\ UNCHANGED <<serverVars, cli>>

\* read_input called on its own, again and again until it returns null.
InitRead ==
  /\ pc = "read_input"
  /\ raw = <<>>
  /\ line = <<>>
  /\ stdin \in ReadStreams
  /\ InitRest
  /\ NoServer

----------------------------------------------------------------------------
(* Shell::cleanup and Process::~Process *)

\* ~Process: if (pipe_fd[0] != -1) close(pipe_fd[0]); the same for pipe_fd[1].
DestructorCloses(p) == <<p.pipe_fd[1], p.pipe_fd[2]>>

RECURSIVE AllDestructorCloses(_)
AllDestructorCloses(l) ==
  IF l = <<>> THEN <<>> ELSE DestructorCloses(Head(l)) \o AllDestructorCloses(Tail(l))

\* process_list after the loop of deletes and process_list.clear().
Cleared_keep(l) == l
Cleared(l) == <<>>

\* cleanup(input_line), then the test of while (!quit).
Cleanup ==
  /\ pc = "cleanup"
  /\ LET c == CloseAll([t |-> fds, log |-> closeLog], AllDestructorCloses(process_list))
     IN /\ fds' = c.t
        /\ closeLog' = c.log
  /\ process_list' = Cleared(process_list)
  /\ line' = <<>>
  /\ pc' = IF quit THEN "done" ELSE "prompt"
  /\ UNCHANGED <<raw, idx, pids, prev_read_end, is_quit, wkind, widx, quit,
                 server_fd, children, events, lines_read>>
  /\ UNCHANGED otherVars

----------------------------------------------------------------------------
(* Specifications *)

Next ==
  \/ DisplayPrompt
  \/ ReadLine
  \/ ReadEOF
  \/ ParseInput
  \/ RunEmpty
  \/ LoopQuit
  \/ LoopEnd
  \/ LoopCd
  \/ LoopBuiltin
  \/ LoopPipeFail
  \/ LoopForkFail
  \/ LoopSpawn
  \/ WaitPid
  \/ WaitDone
  \/ ChildSetup
  \/ ChildExit
  \/ Cleanup

\* The interactive shell.
Spec == Init /\ [][Next]_vars

\* parse_input called on its own on each line of ParseLines.
SpecParse == InitParse /\ [][ParseInput]_vars

\* parse_input called on its own on each line of up to MaxParseLen chunks.
SpecParseShort == InitParseShort /\ [][ParseInput]_vars

\* read_input called on its own on each stream of ReadStreams.
SpecRead == InitRead /\ [][ReadInput]_vars

----------------------------------------------------------------------------
(* The command segments of a source line, by splitting *)

\* s split at every element of D; empty pieces are kept.
RECURSIVE Split(_, _)
Split(s, D) ==
  IF s = <<>> THEN << <<>> >>
  ELSE LET init == SubSeq(s, 1, Len(s) - 1)
           last == s[Len(s)]
           done == Split(init, D)
       IN IF last \in D THEN Append(done, <<>>)
          ELSE [done EXCEPT ![Len(done)] = Append(@, last)]

RECURSIVE Join(_)
Join(chunks) == IF chunks = <<>> THEN "" ELSE Head(chunks) \o Join(Tail(chunks))

FirstN(s, n) == IF Len(s) <= n THEN s ELSE SubSeq(s, 1, n)

\* The whitespace-separated words of a segment.
WordsOf(seg) ==
  LET parts == SelectSeq(Split(seg, Whitespace), LAMBDA w : w # <<>>)
  IN [k \in 1..Len(parts) |-> Join(parts[k])]

\* The non-empty command segments of a line, in source order.
SegmentsOf(l) ==
  SelectSeq(Split(l, Separators), LAMBDA seg : \E k \in 1..Len(seg) : seg[k] \notin Whitespace)

\* The token lists the line calls for.
ExpectedTokens(l) ==
  LET segs == SegmentsOf(l)
  IN [k \in 1..Len(segs) |-> FirstN(WordsOf(segs[k]), MaxTokens)]

\* The token lists of the descriptors in process_list.
ParsedTokens == [k \in 1..Len(process_list) |-> TokensOf(line, process_list[k])]

\* parse_input has returned and run_commands has not yet acted.
Parsed == pc = "loop" /\ idx = 1 /\ events = <<>>

----------------------------------------------------------------------------
(* Claims *)

\* C1: after parse_input, process_list holds one descriptor per non-empty
\* command segment of the line (split on ';' and '|' jointly), in source order,
\* and the tokens of the k-th descriptor are the whitespace-separated words of
\* the k-th non-empty segment in order, limited to the first MaxTokens.
C1_OneDescriptorPerSegment == Parsed => ParsedTokens = ExpectedTokens(raw)

\* C1 witness: a parsed line with an empty segment between separators, a
\* segment of more than MaxTokens words and a further segment after it.
C1_Witness ==
  /\ Parsed
  /\ Len(process_list) = 2
  /\ process_list[2].tok_index = MaxTokens
  /\ Len(WordsOf(SegmentsOf(raw)[2])) = MaxTokens + 1
  /\ Len(Split(raw, Separators)) > 3

\* C2: in every sequence parse_input produces, pipe_out of descriptor i holds
\* exactly when pipe_in of descriptor i + 1 holds.
C2_FlagsPaired ==
  Parsed =>
    \A i \in 1..(Len(process_list) - 1) :
      process_list[i].pipe_out <=> process_list[i + 1].pipe_in

----------------------------------------------------------------------------
(* The record of a line *)

EvIdx(kind) == {j \in DOMAIN events : events[j].ev = kind}
HasEv(kind) == EvIdx(kind) # {}

\* run_commands has returned and cleanup has not yet run.
Returned == pc = "cleanup"
ReturnValue == events[Len(events)].arg

\* cleanup has run for a line that run_commands executed.
LineFinished == pc \in {"prompt", "done"} /\ events # <<>>

\* pipe() or fork() has failed on this line.
ResourceFailure == HasEv("pipe_fail") \/ HasEv("fork_fail")

\* The pipe endpoints created for the line.
PipeEndsMade == {PipeEnd(events[j].arg, e) : j \in EvIdx("pipe"), e \in {"r", "w"}}

ClosesHitting(obj) == {j \in DOMAIN closeLog : closeLog[j].hit = obj}

\* C3: once run_commands and cleanup are over for a line, every pipe endpoint
\* obtained from pipe() has been closed by the interpreter exactly once: each
\* endpoint was closed, and no close call was made on a descriptor number
\* that no longer referred to the endpoint it was stored for.
C3_EachPipeEndClosedOnce ==
  LineFinished =>
    /\ \A ep \in PipeEndsMade : Cardinality(ClosesHitting(ep)) = 1
    /\ \A j \in DOMAIN closeLog : closeLog[j].hit \in PipeEndsMade

\* C4: from a quit descriptor on, run_commands executes and spawns nothing
\* more (it only waits and returns); when it returns after a quit every child
\* of the line has been waited for and the value is true; a return that did
\* not reach a quit gives false.
C4_QuitStopsAndReaps ==
  /\ \A q \in EvIdx("quit") : \A j \in DOMAIN events :
       j > q => events[j].ev \in {"wait", "return"}
  /\ Returned =>
       /\ (ReturnValue = 1) <=> HasEv("quit")
       /\ quit <=> HasEv("quit")
       /\ HasEv("quit") =>
            \A k \in DOMAIN children :
              children[k].state = "exited" /\ children[k].waits >= 1

\* C4 witness: run_commands has returned after a quit that was reached with a
\* child still to be waited for and with a descriptor after the quit.
C4_Witness ==
  /\ Returned
  /\ \E q \in EvIdx("quit") :
       /\ events[q].arg < Len(process_list)
       /\ \E f \in EvIdx("fork"), w \in EvIdx("wait") : f < q /\ q < w

----------------------------------------------------------------------------
(* Which separators stand between two commands of the source line *)

Positions(l) == [i \in 1..Len(l) |-> i]

\* The positions of the separators of l; piece m of Split(l, Separators) ends
\* at separator m.
SepPositions(l) == SelectSeq(Positions(l), LAMBDA i : l[i] \in Separators)

\* The pieces of l that are command segments, by their number.
SegmentPieces(l) ==
  LET pieces == Split(l, Separators)
  IN SelectSeq(Positions(pieces),
               LAMBDA m : \E k \in 1..Len(pieces[m]) : pieces[m][k] \notin Whitespace)

\* A ';' stands somewhere between the a-th and the b-th command of l (a < b).
SemicolonBetween(l, a, b) ==
  \E m \in SegmentPieces(l)[a]..(SegmentPieces(l)[b] - 1) : l[SepPositions(l)[m]] = ";"

\* The child forked for descriptor i, if any.
ChildrenOf(i) == {k \in DOMAIN children : children[k].idx = i}

\* C5: for two external commands of a line separated by a ';', the process of
\* the earlier one has been waited for before the later one is forked.
C5_SegmentsNeverOverlap ==
  process_list # <<>> =>
    \A f \in EvIdx("fork") : \A a \in 1..(events[f].arg - 1) :
      SemicolonBetween(raw, a, events[f].arg) =>
        \A k \in ChildrenOf(a) :
          \E w \in EvIdx("wait") : w < f /\ events[w].arg = k

\* C6: when run_commands returns after finishing the sequence or after a quit,
\* every child it forked for the line has been waited for exactly once.
C6_EachChildWaitedOnce ==
  (Returned /\ ~ResourceFailure) =>
    \A k \in DOMAIN children :
      /\ children[k].waits = 1
      /\ Cardinality({w \in EvIdx("wait") : events[w].arg = k}) = 1

\* C6 witness: run_commands has returned without a failure after forking
\* children in two different pipeline segments and one reaped by the final loop.
C6_Witness ==
  /\ Returned
  /\ ~ResourceFailure
  /\ Len(children) >= 2
  /\ \E w1 \in EvIdx("wait"), f \in EvIdx("fork"), w2 \in EvIdx("wait"), q \in EvIdx("quit") :
       w1 < f /\ f < q /\ q < w2

\* C7: if pipe() or fork() fails at some descriptor, every child already forked
\* for the line has been waited for when run_commands returns.
C7_FailureStillReaps ==
  (Returned /\ ResourceFailure) =>
    \A k \in DOMAIN children : children[k].waits >= 1

----------------------------------------------------------------------------

\* A child of the line has ended on a failed dup2.
DupFailed == \E k \in DOMAIN children : children[k].how = "dup2_fail"

\* The step spawns a descriptor's process or executes a builtin.
ExecStep ==
  /\ Len(events') > Len(events)
  /\ \E j \in (Len(events) + 1)..Len(events') :
       events'[j].ev \in {"pipe", "fork", "cd", "builtin"}

\* Every descriptor of the line has been executed or spawned.
AllHandled ==
  \A i \in 1..Len(process_list) :
    \E j \in DOMAIN events : events[j].ev \in {"fork", "cd", "builtin"} /\ events[j].arg = i

C9_ChildExecsOrExits ==
  /\ \A k \in DOMAIN children :
       /\ children[k].state \in {"forked", "running", "exited"}
       /\ children[k].image = "shell" =>
            \/ children[k].state = "forked"
            \/ children[k].state = "exited" /\ children[k].status = "EXIT_FAILURE"
       /\ children[k].state = "running" => children[k].image = "program"
  /\ (Returned /\ ~ResourceFailure /\ ~HasEv("quit")) => AllHandled

\* C9 witness: a child's execvp failed, the child exited with a failure
\* status, and run_commands has handled a later descriptor and returned.
C9_Witness ==
  /\ Returned
  /\ \E k \in DOMAIN children :
       /\ children[k].how = "exec_fail"
       /\ children[k].status = "EXIT_FAILURE"
       /\ \E j \in DOMAIN events :
            events[j].ev \in {"fork", "cd", "builtin"} /\ events[j].arg > children[k].idx

\* The reserved verbs: quit, cd and the remote-storage verbs.
ReservedVerbs == {"quit", "cd", "cput", "cget", "crm", "cls", "ccon", "cdisc"}
Reserved(i) == TokensOf(line, process_list[i])[1] \in ReservedVerbs

RECURSIVE ArgsOf(_, _)
ArgsOf(evs, kind) ==
  IF evs = <<>> THEN <<>>
  ELSE IF Head(evs).ev = kind THEN <<Head(evs).arg>> \o ArgsOf(Tail(evs), kind)
       ELSE ArgsOf(Tail(evs), kind)

\* The descriptors before the first quit.
BeforeQuit ==
  {i \in 1..Len(process_list) :
     \A j \in 1..i : TokensOf(line, process_list[j])[1] # "quit"}

\* C10: run_commands creates no pipe and forks no process for a descriptor whose
\* first token is a reserved verb, whatever its pipe flags; and on a return
\* without pipe() or fork() failure the forks of the line are the descriptors
\* before the first quit that are not reserved, each once, in sequence order.
C10_NoForkForBuiltins ==
  process_list # <<>> =>
    /\ \A j \in DOMAIN events :
         events[j].ev \in {"pipe", "fork", "pipe_fail", "fork_fail"} =>
           ~Reserved(events[j].arg)
    /\ (Returned /\ ~ResourceFailure) =>
         ArgsOf(events, "fork")
           = SelectSeq(Positions(process_list),
                       LAMBDA i : i \in BeforeQuit /\ ~Reserved(i))

\* C10 witness: run_commands has returned without failure from a line with a
\* cd descriptor whose pipe flags are set, forked commands around it and a quit.
C10_Witness ==
  /\ Returned
  /\ ~ResourceFailure
  /\ HasEv("quit")
  /\ Len(ArgsOf(events, "fork")) >= 1
  /\ \E j \in EvIdx("cd") :
       process_list[events[j].arg].pipe_in /\ process_list[events[j].arg].pipe_out

----------------------------------------------------------------------------
(* The standard input of a child *)

\* The children that have just been forked: their table is still the copy of
\* the interpreter's table taken by fork().
JustForked == {k \in DOMAIN children : children[k].state = "forked"}

\* C11: a child forked for a descriptor with pipe_in = true is given, as the
\* source of its standard input, the read endpoint of the pipe created for the
\* descriptor immediately before it in the sequence, open at the fork.
C11_StdinFromPredecessor ==
  \A k \in JustForked :
    children[k].proc.pipe_in =>
      /\ children[k].idx > 1
      /\ children[k].prev # -1
      /\ Lookup(children[k].fdtab, children[k].prev)
           = PipeEnd(children[k].idx - 1, "r")

----------------------------------------------------------------------------
(* The sequence parse_input leaves *)

\* C12: after parse_input no descriptor of process_list has zero tokens.
C12_NoEmptyDescriptor ==
  Parsed =>
    \A i \in 1..Len(process_list) :
      process_list[i].tok_index > 0 /\ process_list[i].cmdTokens # <<>>

\* C12 witness: a parsed line with empty segments between its separators,
\* among them one after a '|', and with commands that were kept.
C12_Witness ==
  /\ Parsed
  /\ Len(process_list) >= 2
  /\ Len(Split(raw, Separators)) >= Len(process_list) + 2
  /\ \E i \in 1..(Len(raw) - 1) : raw[i] = "|" /\ raw[i + 1] \in Separators

\* The line holds nothing but whitespace, ';' and '|'.
OnlyDelimiters(l) == \A k \in 1..Len(l) : l[k] \in Whitespace \cup Separators

\* C13: on a line made only of whitespace, ';' and '|' (the empty line
\* included) parse_input leaves process_list empty.
C13_DelimitersParseToNothing ==
  (Parsed /\ OnlyDelimiters(raw)) => process_list = <<>>

\* C13 witness: a parsed line of MaxParseLen delimiters with a blank, a tab,
\* a ';' and a '|' among them, a '|' first.
C13_Witness ==
  /\ Parsed
  /\ OnlyDelimiters(raw)
  /\ Len(raw) = MaxParseLen
  /\ raw[1] = "|"
  /\ {" ", "\t", ";", "|"} \subseteq {raw[k] : k \in 1..Len(raw)}
  /\ process_list = <<>>

\* The line ends in a '|' with nothing but whitespace after it.
TrailingPipe(l) == sanitize(l) # <<>> /\ sanitize(l)[Len(sanitize(l))] = "|"

\* C14: in a non-empty sequence left by parse_input the first descriptor has
\* pipe_in = false and the last has pipe_out = false; a '|' at the end of the
\* line adds no descriptor.
C14_EndsUnpiped ==
  (Parsed /\ process_list # <<>>) =>
    /\ ~process_list[1].pipe_in
    /\ ~process_list[Len(process_list)].pipe_out
    /\ TrailingPipe(raw) => Len(process_list) = Len(SegmentsOf(raw))

\* C14 witness: a parsed line of two piped commands that ends in a '|', and
\* whose first command comes after a leading '|'.
C14_Witness ==
  /\ Parsed
  /\ TrailingPipe(raw)
  /\ raw[1] = "|"
  /\ Len(process_list) = 2
  /\ process_list[1].pipe_out
  /\ process_list[2].pipe_in
  /\ ~process_list[2].pipe_out

\* The first separator after the i-th command of l, for a command that is
\* not the last one.
SeparatorAfter(l, i) == l[SepPositions(l)[SegmentPieces(l)[i]]]

\* C15: descriptor i has pipe_out = true exactly when the first separator
\* after command i in the source line is a '|' and one more non-empty command
\* follows later on the line.
C15_PipeOutMatchesSource ==
  (Parsed /\ Len(process_list) = Len(SegmentsOf(raw))) =>
    \A i \in 1..Len(process_list) :
      process_list[i].pipe_out
        <=> (i < Len(process_list) /\ SeparatorAfter(raw, i) = "|")

----------------------------------------------------------------------------
(* The token cap *)

\* One chunk of the line l taken into st: out is what is kept so far, words
\* counts the words of the current command, inword tells whether the last
\* chunk was part of a word.  A word beyond the MaxTokens-th is not kept.
CapChunk(st, c) ==
  IF c \in Separators
  THEN [st EXCEPT !.out = Append(@, c), !.words = 0, !.inword = FALSE]
  ELSE IF c \in Whitespace
       THEN [st EXCEPT !.out = Append(@, c), !.inword = FALSE]
       ELSE IF st.inword
            THEN [st EXCEPT !.out = IF st.words <= MaxTokens THEN Append(@, c) ELSE @]
            ELSE [st EXCEPT !.out = IF st.words < MaxTokens THEN Append(@, c) ELSE @,
                            !.words = @ + 1, !.inword = TRUE]

RECURSIVE CapLoop(_, _)
CapLoop(st, l) ==
  IF st.i > Len(l) THEN st
  ELSE CapLoop([CapChunk(st, l[st.i]) EXCEPT !.i = @ + 1], l)

\* The line l without the words beyond the MaxTokens-th of each command.
Capped(l) == CapLoop([i |-> 1, out |-> <<>>, words |-> 0, inword |-> FALSE], l)

\* Descriptor p of buffer buf as parse_input's caller sees it.
Seen(buf, p) ==
  [tokens |-> TokensOf(buf, p), pipe_in |-> p.pipe_in, pipe_out |-> p.pipe_out]

\* The commands of l with more than MaxTokens words.
OverCap(l) ==
  {k \in 1..Len(SegmentsOf(l)) : Len(WordsOf(SegmentsOf(l)[k])) > MaxTokens}

\* C17: a descriptor keeps the first MaxTokens tokens given to it, in order,
\* and ignores the later ones; the descriptors after it are delimited,
\* tokenized and flagged as on the line without the ignored tokens.
C17_DroppedTokensLeaveRestAlone ==
  (Parsed /\ OverCap(raw) # {}) =>
    LET r == parse_input(Capped(raw).out, <<>>, "none")
    IN /\ Len(process_list) = Len(r.list)
       /\ \A k \in 1..Len(process_list) :
            /\ k \in OverCap(raw) =>
                 /\ process_list[k].tok_index = MaxTokens
                 /\ TokensOf(line, process_list[k])
                      = FirstN(WordsOf(SegmentsOf(raw)[k]), MaxTokens)
            /\ (k \notin OverCap(raw) /\ \E j \in OverCap(raw) : j < k) =>
                 Seen(line, process_list[k]) = Seen(r.cmd, r.list[k])

\* C17 witness: a parsed line whose first command has MaxTokens + 1 words and
\* is followed by a '|' and a further command.
C17_Witness ==
  /\ Parsed
  /\ 1 \in OverCap(raw)
  /\ Len(process_list) = 2
  /\ SeparatorAfter(raw, 1) = "|"
  /\ process_list[2].pipe_in
  /\ TokensOf(line, process_list[2]) = <<"a">>

----------------------------------------------------------------------------
(* A ';' right after a '|' *)

\* Command i of l is followed by a '|' and then, with no command between
\* them, by a ';'.
DanglingPipe(l, i) ==
  LET m == SegmentPieces(l)[i]
  IN /\ m + 1 <= Len(SepPositions(l))
     /\ l[SepPositions(l)[m]] = "|"
     /\ l[SepPositions(l)[m + 1]] = ";"
     /\ \A k \in 1..Len(SegmentPieces(l)) : SegmentPieces(l)[k] # m + 1

\* C16: when a ';' follows a '|' with no command between them, the command
\* before the '|' has pipe_out = false, the command after the ';' has
\* pipe_in = false, no pipe is created for the former, and it has been waited
\* for before the latter is forked.
C16_DanglingPipeDropped ==
  (process_list # <<>> /\ Len(process_list) = Len(SegmentsOf(raw))) =>
    \A i \in 1..Len(process_list) :
      DanglingPipe(raw, i) =>
        /\ ~process_list[i].pipe_out
        /\ i < Len(process_list) => ~process_list[i + 1].pipe_in
        /\ \A j \in EvIdx("pipe") : events[j].arg # i
        /\ \A f \in EvIdx("fork") :
             events[f].arg = i + 1 =>
               \A k \in ChildrenOf(i) :
                 \E w \in EvIdx("wait") : w < f /\ events[w].arg = k

----------------------------------------------------------------------------
(* The remote-storage verbs *)

TransferVerbs == {"cput", "cget", "crm", "cls"}

\* The step runs handleBuiltin for a descriptor whose verb is in verbs.
Ran(verbs) ==
  /\ Len(events') > Len(events)
  /\ events'[Len(events) + 1] = Event("builtin", idx)
  /\ Arg0(process_list[idx]) \in verbs

\* What the handler run by the step did.
Did == SubSeq(events', Len(events) + 2, Len(events'))
Kinds(es) == {es[k].ev : k \in DOMAIN es}

\* The handler did nothing but report: no descriptor call, no file access, no
\* change of the session handle or of the descriptor table.
OnlyReported(kinds) ==
  /\ Did # <<>>
  /\ Kinds(Did) \subseteq kinds
  /\ server_fd' = server_fd
  /\ fds' = fds

\* The builtin events of the line whose handler did exactly es.
BuiltinsThatDid(es) ==
  {j \in EvIdx("builtin") :
     /\ j + Len(es) <= Len(events)
     /\ SubSeq(events, j + 1, j + Len(es)) = es
     /\ (j + Len(es) = Len(events)
           \/ events[j + Len(es) + 1].ev \in {"builtin", "fork", "pipe", "cd", "quit",
                                                "return", "pipe_fail", "fork_fail"})}

VerbOf(j) == TokensOf(line, process_list[events[j].arg])[1]

\* C18: server_fd changes only in ccon and cdisc; cput, cget, crm and cls
\* leave it, and the socket it names, as they were on every outcome.
C18_OnlyConnectAndDisconnectChangeHandle ==
  [][/\ server_fd' # server_fd => Ran({"ccon", "cdisc"})
     /\ Ran(TransferVerbs) =>
          /\ server_fd' = server_fd
          /\ Lookup(fds', server_fd') = Lookup(fds, server_fd)]_vars

\* C18 witness: with a session active, a cget has sent its request and got
\* no usable response; the session is still there.
C18_Witness ==
  /\ process_list # <<>>
  /\ server_fd # -1
  /\ Lookup(fds, server_fd) = Socket
  /\ \E j \in BuiltinsThatDid(<<Effect("send", server_fd), Effect("recv", server_fd),
                                Effect("error", -1)>>) :
       VerbOf(j) = "cget"

\* C19: with no session (server_fd = -1) each of cput, cget, crm and cls only
\* reports an error: it sends nothing, touches no file and leaves the session
\* disconnected.
C19_NoSessionNoEffect ==
  [][(Ran(TransferVerbs) /\ server_fd = -1) =>
       /\ OnlyReported({"usage", "not_connected"})
       /\ server_fd' = -1]_vars

\* C19 witness: a line has run cput, cget, crm and cls with no session, each
\* with the arguments it needs, and each reported that it is not connected.
C19_Witness ==
  /\ process_list # <<>>
  /\ server_fd = -1
  /\ {VerbOf(j) : j \in BuiltinsThatDid(<<Effect("not_connected", -1)>>)} = TransferVerbs

\* The number of arguments a verb expects.
ExpectedArgs(verb) ==
  CASE verb = "ccon" -> 2 [] verb = "cput" -> 2 [] verb = "cget" -> 2 [] verb = "crm" -> 1

CountedVerbs == {"ccon", "cput", "cget", "crm"}

----------------------------------------------------------------------------
(* Shell::run *)

\* C23: Shell::run ends only on end of input or on quit: the interpreter
\* process is never ended by a failure, a line that ran without a quit is
\* followed by the next prompt, the loop is left with quit set only after a
\* quit descriptor, and an empty line reaches neither parse_input nor
\* run_commands.
C23_OnlyEofOrQuitEndsRun ==
  /\ pc # "aborted"
  /\ (LineFinished /\ ~HasEv("quit")) => pc = "prompt"
  /\ pc = "done" => IF quit THEN HasEv("quit") ELSE events = <<>>
  /\ pc \in {"parse", "loop", "wait", "cleanup"} => raw # <<>>

\* C24: whenever Shell::run calls parse_input, process_list is empty, and it
\* is empty again when the next prompt is shown.
C24_ListEmptyAtParse ==
  pc \in {"prompt", "read", "parse"} => process_list = <<>>

\* C24 witness: parse_input is about to be called for a second line, after a
\* first line whose descriptors ran (it opened the remote session).
C24_Witness ==
  /\ pc = "parse"
  /\ lines_read = 2
  /\ server_fd # -1
  /\ Len(SegmentsOf(raw)) >= 2

----------------------------------------------------------------------------
(* read_input *)

\* read_input has just returned.
HasRead == pc = "read_input" /\ lines_read > 0

\* C26: read_input returns the null pointer if a read failed or the end of
\* the input came before the end of a line; otherwise it returns the next
\* line whole, up to and including its newline, and leaves the rest unread.
C26_NullOrWholeLine ==
  HasRead =>
    IF events # <<>> \/ FirstNewline(raw) = 0
    THEN input.isNull
    ELSE /\ ~input.isNull
         /\ input.data = SubSeq(raw, 1, FirstNewline(raw))
         /\ stdin = SubSeq(raw, FirstNewline(raw) + 1, Len(raw))

----------------------------------------------------------------------------
(* Recognising the reserved verbs *)

RemoteVerbs == {"cput", "cget", "crm", "cls", "ccon", "cdisc"}

\* C27: run_commands treats a descriptor as quit exactly when its first token
\* is the string "quit", as cd exactly when it is "cd", as a remote verb
\* exactly when it is one of the six, and as an external command otherwise.
C27_ExactVerbMatch ==
  process_list # <<>> =>
    \A j \in DOMAIN events :
      events[j].ev \in {"quit", "cd", "builtin", "fork", "pipe_fail", "fork_fail"} =>
        LET tok == TokensOf(line, process_list[events[j].arg])[1]
        IN /\ events[j].ev = "quit" <=> tok = "quit"
           /\ events[j].ev = "cd" <=> tok = "cd"
           /\ events[j].ev = "builtin" <=> tok \in RemoteVerbs
           /\ events[j].ev \in {"fork", "pipe_fail", "fork_fail"}
                <=> tok \notin {"quit", "cd"} \cup RemoteVerbs

\* C27 witness: a line has forked processes for "exit", "quite", "cdr" and
\* "clsx", handled "cd" and "cls" itself, and stopped at "quit".
C27_Witness ==
  /\ Returned
  /\ {TokensOf(line, process_list[events[j].arg])[1] : j \in EvIdx("fork")}
       = {"exit", "quite", "cdr", "clsx"}
  /\ HasEv("cd") /\ HasEv("builtin") /\ HasEv("quit")

----------------------------------------------------------------------------
(* Sealing a descriptor *)

\* C28: the null marker of every sealed descriptor, stored at
\* cmdTokens[tok_index], lies inside the array of MaxTokens slots (indexes
\* 0 .. MaxTokens - 1), and sealing leaves the pipe flags and the pipe
\* endpoints of the descriptor as they were.
C28_NullMarkerInsideArray ==
  Parsed =>
    /\ \A i \in 1..Len(process_list) : process_list[i].tok_index <= MaxTokens - 1
    /\ \A i \in 1..Len(process_list) : process_list[i].pipe_fd = <<-1, -1>>
    /\ process_list = parse_input(raw, <<>>, "none").list

----------------------------------------------------------------------------
(* Waiting with a pipe in hand *)

\* The pipe read endpoints the interpreter holds open.
OpenReadEnds == {fd \in DOMAIN fds : fds[fd].kind = "pipe" /\ fds[fd].end = "r"}

\* C29: whenever run_commands is in waitpid for a child, in a segment loop, in
\* the loop after a failed fork or in the final loop, the interpreter holds no
\* open pipe read endpoint.
C29_NoReadEndWhileWaiting ==
  (pc = "wait" /\ widx <= Len(pids)) => OpenReadEnds = {}

----------------------------------------------------------------------------
(* The session socket *)

\* C30: while a session is active (server_fd is not -1, from a successful
\* ccon until cdisc) the descriptor number in server_fd is open and names the
\* session socket: no pipe close of run_commands and no destructor close of
\* cleanup was made on it.
C30_SessionSocketStaysOpen ==
  server_fd # -1 => Lookup(fds, server_fd) = Socket

----------------------------------------------------------------------------
(* How the processes of a pipeline are connected *)

\* The line is c1 | c2 | ... | cn with every ci an external command.
PurePipeline(l) ==
  /\ l # <<>>
  /\ \A k \in 1..Len(l) : l[k] \in Separators => l[k] = "|"
  /\ Len(SegmentsOf(l)) = Len(Split(l, Separators))
  /\ \A k \in 1..Len(SegmentsOf(l)) :
       WordsOf(SegmentsOf(l)[k])[1] \notin {"quit", "cd"} \cup RemoteVerbs

\* The children that have called execvp with success.
Execed == {k \in DOMAIN children : children[k].how = "exec_ok"}

\* The processes that hold object obj open: the interpreter (0) and the
\* children that have not exited.
HoldersOf(obj) ==
  {0 : x \in {fd \in DOMAIN fds : fds[fd] = obj}}
  \cup {k \in DOMAIN children :
          /\ children[k].state # "exited"
          /\ \E fd \in DOMAIN children[k].fdtab : children[k].fdtab[fd] = obj}

\* C25: in a pipeline c1 | ... | cn of external commands the standard output
\* of ci and the standard input of ci+1 are the two ends of one pipe, which
\* has no other writer once ci+1 exists and no writer at all once ci has
\* exited (so that ci+1 reads end of file); the standard input of c1 and the
\* standard output of cn are the interpreter's own.
C25_PipelineConnected ==
  (process_list # <<>> /\ PurePipeline(raw)) =>
    LET n == Len(SegmentsOf(raw))
    IN \A k \in Execed :
         LET i == children[k].idx
             t == children[k].fdtab
         IN /\ Lookup(t, 0) = IF i = 1 THEN Tty ELSE PipeEnd(i - 1, "r")
            /\ Lookup(t, 1) = IF i = n THEN Tty ELSE PipeEnd(i, "w")
            /\ i < n =>
                 /\ HoldersOf(PipeEnd(i, "w")) \subseteq {k}
                 /\ children[k].state = "exited" => HoldersOf(PipeEnd(i, "w")) = {}

----------------------------------------------------------------------------
(* protocol.h: lines and fields on a socket *)

\* A byte stream is a sequence of chunks, as a command line is: a protocol
\* word ("UPLOAD", "OK", ...), a message text, or one character.  The bytes
\* that are counted (file contents, sizes, names) are single characters.

\* split_string: std::getline until it fails, so a delimiter at the very end
\* gives no empty last field and the empty string gives no field at all.
RECURSIVE split_string(_, _)
split_string(str, delim) ==
  IF str = <<>> THEN <<>>
  ELSE IF \A k \in 1..Len(str) : str[k] # delim THEN <<str>>
  ELSE LET k == CHOOSE i \in 1..Len(str) :
                  str[i] = delim /\ \A j \in 1..(i - 1) : str[j] # delim
       IN <<SubSeq(str, 1, k - 1)>>
            \o split_string(SubSeq(str, k + 1, Len(str)), delim)

\* read_line: the bytes up to the next newline without the carriage returns;
\* the empty string when recv returns 0 first (the peer has sent everything
\* and shut down), whatever was read before.
read_line(stream) ==
  LET n == FirstNewline(stream)
  IN IF n = 0 THEN [line |-> <<>>, rest |-> <<>>]
     ELSE [line |-> SelectSeq(SubSeq(stream, 1, n - 1), LAMBDA c : c # "\r"),
           rest |-> SubSeq(stream, n + 1, Len(stream))]

\* send_line: one send call of line + "\n".
send_line(l) == l \o <<"\n">>

\* recv_all: exactly len bytes, whatever they are; fails when the peer shuts
\* down before.
recv_all(stream, len) ==
  IF Len(stream) < len
  THEN [ok |-> FALSE, data |-> <<>>, rest |-> <<>>]
  ELSE [ok |-> TRUE, data |-> SubSeq(stream, 1, len),
        rest |-> SubSeq(stream, len + 1, Len(stream))]

Digits == <<"0", "1", "2", "3", "4", "5", "6", "7", "8", "9">>
IsDigit(c) == \E d \in 1..Len(Digits) : Digits[d] = c
DigitVal(c) == (CHOOSE d \in 1..Len(Digits) : Digits[d] = c) - 1

RECURSIVE stoull_loop(_, _)
stoull_loop(s, acc) ==
  IF s = <<>> \/ ~IsDigit(Head(s)) THEN acc
  ELSE stoull_loop(Tail(s), acc * 10 + DigitVal(Head(s)))

\* std::stoull: the value of the leading digits; std::invalid_argument when
\* there is none.  (Leading blanks, signs and values beyond 64 bits are not
\* among the sizes the clients send here.)
stoull(s) ==
  IF s = <<>> \/ ~IsDigit(Head(s))
  THEN [threw |-> TRUE, value |-> 0]
  ELSE [threw |-> FALSE, value |-> stoull_loop(s, 0)]

\* std::to_string of a size.
RECURSIVE to_string(_)
to_string(n) ==
  IF n < 10 THEN <<Digits[n + 1]>>
  ELSE to_string(n \div 10) \o <<Digits[(n % 10) + 1]>>

----------------------------------------------------------------------------
(* cloud_server.cpp *)

\* most file system calls that fail in one run
MaxFaults == 1
\* send calls a socket takes while its client reads nothing
SendWindow == 2

Threads == {1, 2}

shellVars == <<pc, raw, line, process_list, idx, pids, prev_read_end, is_quit,
               wkind, widx, quit, server_fd, fds, children, events,
               closeLog, lines_read, stdin, input, cli>>

\* Client t is the shell with its session open: it sends its requests one
\* by one.  Every other client has sent all it sends and shut its side down.
PeerOpen(t) == t = 1 /\ cli.pc # "off"

NoLocals == [filename |-> <<>>, filesize |-> 0, buffer |-> <<>>, todo |-> <<>>]

Ok(text) == send_line(<<"OK", "|", text>>)
Err(text) == send_line(<<"ERROR", "|", text>>)

\* get_file_path: the entry of the flat storage directory that
\* "server_files/" + filename names.  Slashes in front are redundant; a path
\* that is the directory itself or that goes through an entry names no file
\* (the empty result).  Names are taken without "." and ".." components.
RECURSIVE StripSlashes(_)
StripSlashes(name) ==
  IF name # <<>> /\ Head(name) = "/" THEN StripSlashes(Tail(name)) ELSE name

get_file_path(filename) ==
  LET e == StripSlashes(filename)
  IN IF \E k \in 1..Len(e) : e[k] = "/" THEN <<>> ELSE e

Stored(entry) == {f \in files : f.name = entry}

\* whether the next file system call may fail
FaultChoices == IF faults < MaxFaults THEN {FALSE, TRUE} ELSE {FALSE}

Go(p, c) == [pc |-> p, cur |-> c]
Say(m) == Go("reply", [NoLocals EXCEPT !.todo = <<m>>])

\* handle_client: what the thread does with the request line it has read.
Dispatch(request) ==
  LET parts == split_string(request, "|")
      cmd == parts[1]
  IN IF request = <<>> THEN Go("done", NoLocals)
     ELSE IF parts = <<>> THEN Go("read", NoLocals)
     ELSE IF cmd = <<"LIST">> THEN Go("list_lock", NoLocals)
     ELSE IF cmd = <<"UPLOAD">> THEN
       IF Len(parts) < 3 THEN Say(Err("Invalid UPLOAD command"))
       ELSE IF stoull(parts[3]).threw THEN Go("terminated", NoLocals)
       ELSE Go("upload_recv", [NoLocals EXCEPT !.filename = parts[2],
                                               !.filesize = stoull(parts[3]).value])
     ELSE IF cmd = <<"DOWNLOAD">> THEN
       IF Len(parts) < 2 THEN Say(Err("Invalid DOWNLOAD command"))
       ELSE Go("download_lock", [NoLocals EXCEPT !.filename = parts[2]])
     ELSE IF cmd = <<"DELETE">> THEN
       IF Len(parts) < 2 THEN Say(Err("Invalid DELETE command"))
       ELSE Go("delete_lock", [NoLocals EXCEPT !.filename = parts[2]])
     ELSE Say(Err("Unknown command"))

\* The thread goes on at d.pc with the locals d.cur.
Continue(t, d) ==
  /\ tpc' = [tpc EXCEPT ![t] = d.pc]
  /\ cur' = [cur EXCEPT ![t] = d.cur]

\* main: accept and pthread_create.
Accept(t) ==
  /\ server_up
  /\ tpc[t] = "unconnected"
  /\ tpc' = [tpc EXCEPT ![t] = "read"]
  /\ UNCHANGED <<files, file_mutex, server_up, faults, net_in, net_out, room,
                 script, cur>>
  /\ UNCHANGED shellVars

\* handle_client: read_line, then the dispatch on the first field.  An
\* exception that leaves the thread function ends the whole process.
ReadRequest(t) ==
  /\ server_up
  /\ tpc[t] = "read"
  /\ PeerOpen(t) => FirstNewline(net_in[t]) # 0
  /\ LET r == read_line(net_in[t])
         d == Dispatch(r.line)
     IN /\ net_in' = [net_in EXCEPT ![t] = r.rest]
        /\ Continue(t, d)
        /\ server_up' = (d.pc # "terminated")
  /\ UNCHANGED <<files, file_mutex, faults, net_out, room, script>>
  /\ UNCHANGED shellVars

\* handle_upload: recv_all of the announced number of bytes.
UploadRecv(t) ==
  /\ server_up
  /\ tpc[t] = "upload_recv"
  /\ PeerOpen(t) => Len(net_in[t]) >= cur[t].filesize
  /\ LET r == recv_all(net_in[t], cur[t].filesize)
     IN /\ net_in' = [net_in EXCEPT ![t] = r.rest]
        /\ IF r.ok
           THEN Continue(t, Go("upload_lock", [cur[t] EXCEPT !.buffer = r.data]))
           ELSE Continue(t, Say(Err("Failed to receive file data")))
  /\ UNCHANGED <<files, file_mutex, server_up, faults, net_out, room, script>>
  /\ UNCHANGED shellVars

AfterLock ==
  [list_lock |-> "list_open", upload_lock |-> "upload_store",
   download_lock |-> "download_load", delete_lock |-> "delete_unlink"]

\* pthread_mutex_lock(&file_mutex) in the four handlers.
Lock(t) ==
  /\ server_up
  /\ tpc[t] \in DOMAIN AfterLock
  /\ file_mutex = 0
  /\ file_mutex' = t
  /\ tpc' = [tpc EXCEPT ![t] = AfterLock[tpc[t]]]
  /\ UNCHANGED <<files, server_up, faults, net_in, net_out, room, script, cur>>
  /\ UNCHANGED shellVars

\* The orders in which readdir can give the entries.
ListOrders ==
  {o \in [1..Cardinality(files) -> {f.name : f \in files}] :
     \A i, j \in DOMAIN o : i # j => o[i] # o[j]}

\* handle_list: opendir; the lines to send are the heading, the entries and
\* the empty line.
ListOpen(t) ==
  /\ server_up
  /\ tpc[t] = "list_open"
  /\ \E fail \in FaultChoices :
       IF fail
       THEN /\ faults' = faults + 1
            /\ file_mutex' = 0
            /\ Continue(t, Say(Err("Failed to open directory")))
       ELSE /\ faults' = faults
            /\ file_mutex' = file_mutex
            /\ \E o \in ListOrders :
                 Continue(t, Go("list_send",
                   [NoLocals EXCEPT !.todo =
                      <<Ok("File list")>> \o [i \in DOMAIN o |-> send_line(o[i])]
                        \o <<send_line(<<>>)>>]))
  /\ UNCHANGED <<files, server_up, net_in, net_out, room, script>>
  /\ UNCHANGED shellVars

\* One send call; it blocks while the socket has no room.
Send(t) ==
  /\ room[t] > 0
  /\ room' = [room EXCEPT ![t] = @ - 1]
  /\ net_out' = [net_out EXCEPT ![t] = @ \o Head(cur[t].todo)]

\* handle_list: the next send_line; after the last one closedir and
\* pthread_mutex_unlock.
ListSend(t) ==
  /\ server_up
  /\ tpc[t] = "list_send"
  /\ Send(t)
  /\ cur' = [cur EXCEPT ![t].todo = Tail(@)]
  /\ IF Len(cur[t].todo) = 1
     THEN /\ file_mutex' = 0
          /\ tpc' = [tpc EXCEPT ![t] = "read"]
     ELSE UNCHANGED <<file_mutex, tpc>>
  /\ UNCHANGED <<files, server_up, faults, net_in, script>>
  /\ UNCHANGED shellVars

\* handle_upload: the ofstream, write, close, unlock, and the answer to send.
UploadStore(t) ==
  /\ server_up
  /\ tpc[t] = "upload_store"
  /\ LET e == get_file_path(cur[t].filename)
     IN \E fail \in FaultChoices :
          /\ faults' = IF fail THEN faults + 1 ELSE faults
          /\ IF fail \/ e = <<>>
             THEN /\ files' = files
                  /\ Continue(t, Say(Err("Failed to create file")))
             ELSE /\ files' = (files \ Stored(e))
                                \cup {[name |-> e, data |-> cur[t].buffer]}
                  /\ Continue(t, Say(Ok("File uploaded successfully")))
  /\ file_mutex' = 0
  /\ UNCHANGED <<server_up, net_in, net_out, room, script>>
  /\ UNCHANGED shellVars

\* handle_download: the ifstream, read, close, unlock, and what to send.
DownloadLoad(t) ==
  /\ server_up
  /\ tpc[t] = "download_load"
  /\ LET e == get_file_path(cur[t].filename)
     IN IF e = <<>> \/ Stored(e) = {}
        THEN /\ faults' = faults
             /\ Continue(t, Say(Err("File not found")))
        ELSE \E fail \in FaultChoices :
               LET data == (CHOOSE f \in Stored(e) : TRUE).data
               IN /\ faults' = IF fail THEN faults + 1 ELSE faults
                  /\ IF fail
                     THEN Continue(t, Say(Err("Failed to read file")))
                     ELSE Continue(t, Go("reply", [NoLocals EXCEPT !.todo =
                            <<send_line(<<"OK", "|", "DATA", "|">>
                                          \o to_string(Len(data)))>>
                              \o (IF data = <<>> THEN <<>> ELSE <<data>>)]))
  /\ file_mutex' = 0
  /\ UNCHANGED <<files, server_up, net_in, net_out, room, script>>
  /\ UNCHANGED shellVars

\* handle_delete: unlink, unlock, and the answer to send.
DeleteUnlink(t) ==
  /\ server_up
  /\ tpc[t] = "delete_unlink"
  /\ LET e == get_file_path(cur[t].filename)
     IN IF e = <<>> \/ Stored(e) = {}
        THEN /\ faults' = faults
             /\ files' = files
             /\ Continue(t, Say(Err("Failed to delete file")))
        ELSE \E fail \in FaultChoices :
               /\ faults' = IF fail THEN faults + 1 ELSE faults
               /\ IF fail
                  THEN /\ files' = files
                       /\ Continue(t, Say(Err("Failed to delete file")))
                  ELSE /\ files' = files \ Stored(e)
                       /\ Continue(t, Say(Ok("File deleted successfully")))
  /\ file_mutex' = 0
  /\ UNCHANGED <<server_up, net_in, net_out, room, script>>
  /\ UNCHANGED shellVars

\* The send_line and send_all calls a handler makes after its unlock.
Reply(t) ==
  /\ server_up
  /\ tpc[t] = "reply"
  /\ Send(t)
  /\ cur' = [cur EXCEPT ![t].todo = Tail(@)]
  /\ tpc' = [tpc EXCEPT ![t] = IF Len(cur[t].todo) = 1 THEN "read" ELSE @]
  /\ UNCHANGED <<files, file_mutex, server_up, faults, net_in, script>>
  /\ UNCHANGED shellVars

\* The client reads what the server has sent to it.
ClientReads(t) ==
  /\ ~PeerOpen(t)
  /\ room[t] < SendWindow
  /\ room' = [room EXCEPT ![t] = SendWindow]
  /\ UNCHANGED <<files, file_mutex, server_up, faults, tpc, net_in, net_out,
                 script, cur>>
  /\ UNCHANGED shellVars

\* What a client sends before it shuts its side down.
FileNames == {<<"f">>, <<>>, <<"f", "|", "g">>, <<"f", "/", "g">>, <<"/", "g">>}
Payloads == {<<>>, <<"x", "\n">>, <<"x", "|", "y">>}

UploadRequest(name, b) ==
  send_line(<<"UPLOAD", "|">> \o name \o <<"|">> \o to_string(Len(b))) \o b
DownloadRequest(name) == send_line(<<"DOWNLOAD", "|">> \o name)
RoundTrip(name, b) == UploadRequest(name, b) \o DownloadRequest(name)

ClientScripts ==
  {RoundTrip(name, b) : name \in FileNames, b \in Payloads}
  \cup { <<>>,
         <<"LIST", "\n">>,
         <<"LIST", "\n", "DELETE", "|", "f", "\n">>,
         <<"DELETE", "|", "g", "\n", "DOWNLOAD", "|", "g", "\n">>,
         <<"DOWNLOAD", "|", "f", "\r", "\n", "DOWNLOAD", "\n">>,
         <<"UPLOAD", "|", "f", "\n", "DELETE", "\n">>,
         <<"UPLOAD", "|", "f", "|", "x", "\n">>,
         <<"UPLOAD", "|", "f", "|", "3", "\n", "x">>,
         <<"x", "\n", "|", "\n">>,
         <<"\r", "\n", "LIST", "\n">> }

OtherScripts ==
  { <<>>,
    <<"LIST", "\n">>,
    <<"DELETE", "|", "f", "\n">>,
    UploadRequest(<<"f">>, <<"y">>) }

Storages ==
  { {},
    {[name |-> <<"f">>, data |-> <<"y">>]},
    {[name |-> <<"f">>, data |-> <<"y">>], [name |-> <<"g">>, data |-> <<>>]} }

\* The server is listening and two clients are about to connect.
InitServer ==
  /\ pc = "server"
  /\ raw = <<>>
  /\ line = <<>>
  /\ InitRest
  /\ stdin = <<>>
  /\ files \in Storages
  /\ file_mutex = 0
  /\ server_up = TRUE
  /\ faults = 0
  /\ tpc = [t \in Threads |-> "unconnected"]
  /\ script \in {s \in [Threads -> ClientScripts] : s[2] \in OtherScripts}
  /\ net_in = script
  /\ net_out = [t \in Threads |-> <<>>]
  /\ room = [t \in Threads |-> SendWindow]
  /\ cur = [t \in Threads |-> NoLocals]
  /\ cli = NoClient

NextServer ==
  \/ \E t \in Threads : Accept(t)
  \/ \E t \in Threads : ReadRequest(t)
  \/ \E t \in Threads : UploadRecv(t)
  \/ \E t \in Threads : Lock(t)
  \/ \E t \in Threads : ListOpen(t)
  \/ \E t \in Threads : ListSend(t)
  \/ \E t \in Threads : UploadStore(t)
  \/ \E t \in Threads : DownloadLoad(t)
  \/ \E t \in Threads : DeleteUnlink(t)
  \/ \E t \in Threads : Reply(t)
  \/ \E t \in Threads : ClientReads(t)

\* The storage server with two clients.
SpecServer == InitServer /\ [][NextServer]_vars

----------------------------------------------------------------------------
(* Upload and download on one connection; the mutex *)

\* Client t is the only one that sends anything, and what it sends is the
\* upload of b under name followed by the download of name.
AloneWith(t, name, b) ==
  /\ script[t] = RoundTrip(name, b)
  /\ \A u \in Threads \ {t} : script[u] = <<>>

\* What the client has received is an OK| line, then OK|DATA|n and the n
\* bytes of b.
RoundTripAnswer(out, b) ==
  LET n == FirstNewline(out)
  IN /\ n > 2
     /\ SubSeq(out, 1, 2) = <<"OK", "|">>
     /\ SubSeq(out, n + 1, Len(out))
          = send_line(<<"OK", "|", "DATA", "|">> \o to_string(Len(b))) \o b

\* C21: when a client sends UPLOAD|name|n, n bytes and DOWNLOAD|name, for
\* any name and any bytes, and no file system call fails, the server stays
\* up and, once it has served the connection, the bytes are stored under the
\* name and the client has received an OK| line, OK|DATA|n and the bytes.
C21_UploadThenDownload ==
  \A t \in Threads : \A name \in FileNames : \A b \in Payloads :
    (AloneWith(t, name, b) /\ faults = 0) =>
      /\ server_up
      /\ tpc[t] = "done" =>
           /\ [name |-> name, data |-> b] \in files
           /\ RoundTripAnswer(net_out[t], b)

\* The same for the names that are one plain entry of the storage directory.
C21_PlainNames ==
  \A t \in Threads : \A b \in Payloads :
    (AloneWith(t, <<"f">>, b) /\ faults = 0) =>
      /\ server_up
      /\ tpc[t] = "done" =>
           /\ [name |-> <<"f">>, data |-> b] \in files
           /\ RoundTripAnswer(net_out[t], b)

\* The positions at which a thread works on the storage directory.
StoragePcs == {"list_open", "list_send", "upload_store", "download_load",
               "delete_unlink"}
\* The positions at which a thread waits for file_mutex.
Waiting == {t \in Threads : tpc[t] \in DOMAIN AfterLock}
\* The thread waits in send until its client reads.
BlockedOnClient(t) == tpc[t] \in {"list_send", "reply"} /\ room[t] = 0

C22_StorageOnlyUnderMutex ==
  /\ \A t \in Threads : (server_up /\ tpc[t] \in StoragePcs) => file_mutex = t
  /\ (\A t \in Threads : tpc[t] \notin StoragePcs) => file_mutex = 0

----------------------------------------------------------------------------
(* Who holds the write endpoint of a pipe *)

\* The pipes created for the line, by the position of their producer.
PipesMade == {events[j].arg : j \in EvIdx("pipe")}

\* C31: after each step of the interpreter the write endpoint of every pipe
\* it has created is held by no process other than the producer forked for
\* it (so not by the interpreter and not by any later child), and by no
\* process at all once the producer has exited, which is when the consumer
\* reads end of file.
C31_OnlyProducerHoldsWriteEnd ==
  \A i \in PipesMade :
    /\ HoldersOf(PipeEnd(i, "w")) \subseteq ChildrenOf(i)
    /\ (\A k \in ChildrenOf(i) : children[k].state = "exited")
         => HoldersOf(PipeEnd(i, "w")) = {}

\* A producer that ran its program has exited while the consumer forked
\* after it is running with the read endpoint as its standard input.
C31_Witness ==
  \E i \in PipesMade : \E k \in ChildrenOf(i) : \E c \in DOMAIN children :
    /\ children[k].how = "exec_ok"
    /\ children[k].state = "exited"
    /\ c > k
    /\ children[c].state = "running"
    /\ Lookup(children[c].fdtab, 0) = PipeEnd(i, "r")

----------------------------------------------------------------------------
(* What a child holds when it calls execvp *)

\* The children that have reached execvp, whether it succeeded or not; their
\* descriptor table is the one they called it with.
AtExec == {k \in DOMAIN children : children[k].how \in {"exec_ok", "exec_fail"}}

\* The descriptors of table t that are pipe endpoints.
PipeFdsIn(t) == {fd \in DOMAIN t : t[fd].kind = "pipe"}

\* C32: a child that calls execvp holds pipe endpoints on its standard input
\* and standard output only, and none as standard input when its descriptor
\* has pipe_in = false.
C32_NoStrayPipeEndAtExec ==
  \A k \in AtExec :
    /\ PipeFdsIn(children[k].fdtab) \subseteq {0, 1}
    /\ ~children[k].proc.pipe_in => 0 \notin PipeFdsIn(children[k].fdtab)

\* The same for the lines that are one pipeline of external commands.
C32_InPurePipelines ==
  PurePipeline(raw) => C32_NoStrayPipeEndAtExec

----------------------------------------------------------------------------
(* Every request is answered and the server stays up *)

\* Thread t has served at least one request line of its client.
ServedOne(t) ==
  /\ tpc[t] \in {"read", "done"}
  /\ read_line(script[t]).line # <<>>
  /\ net_in[t] # script[t]

\* What was sent begins with a status line.
StartsWithStatus(out) ==
  /\ Len(out) >= 2
  /\ out[1] \in {"OK", "ERROR"}
  /\ out[2] = "|"

\* Each thread that has served a request has answered it with a status line.
RequestsAnswered ==
  \A t \in Threads : ServedOne(t) => StartsWithStatus(net_out[t])

\* C33: whatever request lines the clients send, the server process stays
\* alive, and a thread that has served a request line has answered its client
\* with a line that begins OK| or ERROR|.
C33_NoRequestEndsTheServer ==
  /\ server_up
  /\ RequestsAnswered

----------------------------------------------------------------------------
(* The remote handlers of the shell, byte by byte, against the server *)

\* A remote command of the shell: the verb, the remote name, and for cput
\* the bytes of the local file (local = FALSE when it cannot be opened).
Cmd(verb, name, local, data) ==
  [verb |-> verb, name |-> name, local |-> local, data |-> data]
cls == Cmd("cls", <<>>, TRUE, <<>>)
cput(name, data) == Cmd("cput", name, TRUE, data)
cput_nofile(name) == Cmd("cput", name, FALSE, <<>>)
cget(name) == Cmd("cget", name, TRUE, <<>>)
crm(name) == Cmd("crm", name, TRUE, <<>>)

\* What the handler of command c sends: the request line and, for cput of a
\* file that is not empty, the bytes of the file.
RequestOf(c) ==
  CASE c.verb = "cls" -> send_line(<<"LIST">>)
    [] c.verb = "cput" ->
         send_line(<<"UPLOAD", "|">> \o c.name \o <<"|">> \o to_string(Len(c.data)))
           \o c.data
    [] c.verb = "cget" -> send_line(<<"DOWNLOAD", "|">> \o c.name)
    [] c.verb = "crm" -> send_line(<<"DELETE", "|">> \o c.name)

\* What the server has sent to the shell and the shell has not read.
Unread == SubSeq(net_out[1], cli.pos + 1, Len(net_out[1]))

\* read_line returns once a whole line has arrived.
LineArrived == FirstNewline(Unread) # 0

\* The handler after it has read the status line: handleCput and handleCrm
\* print it and return; handleCget and handleCls return unless it is an OK
\* line, then handleCget takes the size from the third field and handleCls
\* goes on to the entries.
AfterStatus(verb, response) ==
  LET parts == split_string(response, "|")
      refused == Len(parts) < 2 \/ parts[1] # <<"OK">>
  IN IF response = <<>> \/ verb \in {"cput", "crm"} \/ refused
     THEN [pc |-> "idle", need |-> 0]
     ELSE IF verb = "cls" THEN [pc |-> "entries", need |-> 0]
     ELSE IF Len(parts) < 3 \/ stoull(parts[3]).threw
          THEN [pc |-> "aborted", need |-> 0]
          ELSE [pc |-> "data", need |-> stoull(parts[3]).value]

\* handleCls after it has read an entry: the empty line ends the loop.
AfterEntry_first(file_entry) == "idle"
AfterEntry(file_entry) == IF file_entry = <<>> THEN "idle" ELSE "entries"

\* The shell reads n more bytes from the socket, which makes room in it.
Consume(n) ==
  /\ room' = [room EXCEPT ![1] = SendWindow]
  /\ UNCHANGED <<files, file_mutex, server_up, faults, tpc, net_in, net_out,
                 script, cur>>
  /\ UNCHANGED <<pc, raw, line, process_list, idx, pids, prev_read_end, is_quit,
                 wkind, widx, quit, server_fd, fds, children, events,
                 closeLog, lines_read, stdin, input>>

\* The handler of the next command up to its send_line and send_all; a cput
\* whose local file cannot be opened returns before it sends anything.
CliRequest ==
  /\ cli.pc = "idle"
  /\ cli.cmds # <<>>
  /\ LET c == Head(cli.cmds)
     IN IF c.local
        THEN /\ net_in' = [net_in EXCEPT ![1] = @ \o RequestOf(c)]
             /\ cli' = [cli EXCEPT !.cmds = Tail(@), !.pc = "status",
                                   !.verb = c.verb]
        ELSE /\ net_in' = net_in
             /\ cli' = [cli EXCEPT !.cmds = Tail(@), !.verb = c.verb]
  /\ UNCHANGED <<files, file_mutex, server_up, faults, tpc, net_out, room,
                 script, cur>>
  /\ UNCHANGED <<pc, raw, line, process_list, idx, pids, prev_read_end, is_quit,
                 wkind, widx, quit, server_fd, fds, children, events,
                 closeLog, lines_read, stdin, input>>

\* std::string response = read_line(server_fd) and what the handler makes
\* of it.
CliStatus ==
  /\ cli.pc = "status"
  /\ LineArrived
  /\ LET a == AfterStatus(cli.verb, read_line(Unread).line)
     IN cli' = [cli EXCEPT !.pos = @ + FirstNewline(Unread), !.pc = a.pc,
                           !.need = a.need]
  /\ Consume(FirstNewline(Unread))

\* handleCget: the recv loop until filesize bytes have come.
CliData ==
  /\ cli.pc = "data"
  /\ Len(Unread) >= cli.need
  /\ cli' = [cli EXCEPT !.pos = @ + cli.need, !.pc = "idle", !.need = 0]
  /\ Consume(cli.need)

\* handleCls: file_entry = read_line(server_fd) in the loop.
CliEntry ==
  /\ cli.pc = "entries"
  /\ LineArrived
  /\ cli' = [cli EXCEPT !.pos = @ + FirstNewline(Unread),
                        !.pc = AfterEntry(read_line(Unread).line)]
  /\ Consume(FirstNewline(Unread))

\* cdisc after the last command: close(server_fd).
CliDisconnect ==
  /\ cli.pc = "idle"
  /\ cli.cmds = <<>>
  /\ cli' = [cli EXCEPT !.pc = "off"]
  /\ server_fd' = -1
  /\ fds' = Drop(fds, server_fd)
  /\ UNCHANGED serverVars
  /\ UNCHANGED <<pc, raw, line, process_list, idx, pids, prev_read_end, is_quit,
                 wkind, widx, quit, children, events, closeLog, lines_read,
                 stdin, input>>

\* The commands the shell runs in one session.
SessionCmds ==
  { <<cput(<<"f">>, <<"x", "\n">>), cls, cget(<<"f">>), crm(<<"f">>)>>,
    <<cget(<<"g">>), cls, crm(<<"g">>), cls>>,
    <<cls, cget(<<"f">>), cget(<<"f">>)>>,
    <<cput(<<"f", "/", "g">>, <<"x">>), cget(<<"f", "/", "g">>), cls>>,
    <<cput(<<"g">>, <<>>), cget(<<"g">>), cls>>,
    <<cput_nofile(<<"f">>), crm(<<"f">>), cget(<<"f">>),
      cput(<<"f">>, <<"\n", "\n", "|">>), cget(<<"f">>)>> }

SessionStorages ==
  Storages \cup { {[name |-> <<"f">>, data |-> <<"\n", "O", "\n">>],
                   [name |-> <<"g">>, data |-> <<"y">>]} }

\* The shell has connected with ccon; a second client is about to connect.
InitSession ==
  /\ pc = "session"
  /\ raw = <<>>
  /\ line = <<>>
  /\ process_list = <<>>
  /\ idx = 1
  /\ pids = <<>>
  /\ prev_read_end = -1
  /\ is_quit = FALSE
  /\ wkind = "none"
  /\ widx = 1
  /\ quit = FALSE
  /\ server_fd = LowestFree(StdFds)
  /\ fds = Open(StdFds, LowestFree(StdFds), Socket)
  /\ children = <<>>
  /\ events = <<>>
  /\ closeLog = <<>>
  /\ lines_read = 0
  /\ input = Null
  /\ stdin = <<>>
  /\ files \in SessionStorages
  /\ file_mutex = 0
  /\ server_up = TRUE
  /\ faults = 0
  /\ tpc = [t \in Threads |-> "unconnected"]
  /\ script \in {s \in [Threads -> {<<>>} \cup OtherScripts] : s[1] = <<>>}
  /\ net_in = script
  /\ net_out = [t \in Threads |-> <<>>]
  /\ room = [t \in Threads |-> SendWindow]
  /\ cur = [t \in Threads |-> NoLocals]
  /\ \E cs \in SessionCmds :
       cli = [pc |-> "idle", cmds |-> cs, all |-> cs, pos |-> 0, need |-> 0,
              verb |-> "none"]

NextSession ==
  \/ CliRequest
  \/ CliStatus
  \/ CliData
  \/ CliEntry
  \/ CliDisconnect
  \/ \E t \in Threads : Accept(t)
  \/ \E t \in Threads : ReadRequest(t)
  \/ \E t \in Threads : UploadRecv(t)
  \/ \E t \in Threads : Lock(t)
  \/ \E t \in Threads : ListOpen(t)
  \/ \E t \in Threads : ListSend(t)
  \/ \E t \in Threads : UploadStore(t)
  \/ \E t \in Threads : DownloadLoad(t)
  \/ \E t \in Threads : DeleteUnlink(t)
  \/ \E t \in Threads : Reply(t)
  \/ \E t \in Threads : ClientReads(t)

\* A session of the shell with the storage server, and a second client.
SpecSession == InitSession /\ [][NextSession]_vars

\* C34: whenever none of the handlers cls, cput, cget and crm is running,
\* the shell has read every byte the server has sent on the session
\* connection and the server has read every byte the shell has sent; and the
\* line a handler reads as the status line begins OK| or ERROR|.
C34_SessionInLockStep ==
  /\ cli.pc = "idle" => (Unread = <<>> /\ net_in[1] = <<>>)
  /\ (cli.pc = "status" /\ LineArrived) => StartsWithStatus(Unread)
  /\ cli.pc # "aborted"

\* The session that uploads a file with a newline in it, lists, downloads
\* and deletes is over, and all four answers have been read.
C34_Witness ==
  /\ cli.all = <<cput(<<"f">>, <<"x", "\n">>), cls, cget(<<"f">>), crm(<<"f">>)>>
  /\ cli.cmds = <<>>
  /\ cli.pc = "idle"
  /\ faults = 0
  /\ Unread = <<>>
  /\ \E k \in 1..(Len(net_out[1]) - 6) :
       SubSeq(net_out[1], k, k + 6) = <<"OK", "|", "DATA", "|", "2", "\n", "x">>

----------------------------------------------------------------------------
(* The dispatch of handleBuiltin *)

\* The handler the spec gives each verb: ccon connects, cdisc disconnects,
\* cls lists, cput uploads, cget downloads, crm deletes.
HandlerOf(verb, p, sfd, t, o) ==
  CASE verb = "ccon" -> handleCcon(p, sfd, t, o)
    [] verb = "cdisc" -> handleCdisc(p, sfd, t, o)
    [] verb = "cls" -> handleCls(p, sfd, t, o)
    [] verb = "cput" -> handleCput(p, sfd, t, o)
    [] verb = "cget" -> handleCget(p, sfd, t, o)
    [] verb = "crm" -> handleCrm(p, sfd, t, o)

\* The case labels of the switch.
CaseLabels == {"p", "g", "r", "l", "c", "d"}

\* C35: the second characters of the six verbs are six different case
\* labels of the switch, and for every descriptor isBuiltin accepts
\* handleBuiltin does what the handler of its verb does, on every outcome
\* of the calls the handler makes.
C35_DispatchReachesOwnHandler ==
  /\ \A v, w \in RemoteVerbs : v # w => SecondChar(v) # SecondChar(w)
  /\ \A v \in RemoteVerbs : SecondChar(v) \in CaseLabels
  /\ \A i \in DOMAIN process_list :
       isBuiltin(process_list[i]) =>
         \A o \in HandlerOutcomes :
           handleBuiltin(process_list[i], server_fd, fds, o)
             = HandlerOf(Arg0(process_list[i]), process_list[i], server_fd, fds, o)

\* run_commands has run cdisc with a session open, and the socket was closed.
C35_Witness ==
  /\ process_list # <<>>
  /\ \E j \in EvIdx("builtin") :
       /\ VerbOf(j) = "cdisc"
       /\ j < Len(events)
       /\ events[j + 1].ev = "close"

----------------------------------------------------------------------------
(* ccon that fails, ccon during a session, cdisc without a session *)

\* The sockets open in descriptor table t.
SocketsIn(t) == {fd \in DOMAIN t : t[fd] = Socket}

\* The result r of a handler leaves the session handle and the descriptor
\* table as they were and reports an error.
Rejected(r, sfd, t) ==
  /\ r.server_fd = sfd
  /\ r.fds = t
  /\ Kinds(r.evs) \subseteq {"usage", "error"}
  /\ r.evs # <<>>

\* The handler has connected: a new socket, connected, is the session handle.
Connected(r, t) ==
  /\ r.server_fd \notin DOMAIN t
  /\ r.fds = Open(t, r.server_fd, Socket)
  /\ r.evs = <<Effect("socket", r.server_fd), Effect("connect", r.server_fd)>>

\* C36: on every descriptor that is ccon or cdisc, in every state of the
\* interpreter: a ccon without a session either connects or ends with
\* server_fd = -1 and no socket more open than before; a ccon during a
\* session is rejected and leaves server_fd and the descriptors as they
\* were; a cdisc without a session reports an error and changes nothing.
C36_FailedConnectLeavesDisconnected ==
  \A i \in DOMAIN process_list : \A o \in HandlerOutcomes :
    LET p == process_list[i]
        r == handleBuiltin(p, server_fd, fds, o)
    IN /\ (isBuiltin(p) /\ Arg0(p) = "ccon" /\ server_fd = -1) =>
            \/ Connected(r, fds)
            \/ /\ r.server_fd = -1
               /\ r.fds = fds
               /\ Kinds(r.evs) \cap {"usage", "error"} # {}
       /\ (isBuiltin(p) /\ Arg0(p) = "ccon" /\ server_fd # -1) =>
            Rejected(r, server_fd, fds)
       /\ (isBuiltin(p) /\ Arg0(p) = "cdisc" /\ server_fd = -1) =>
            Rejected(r, server_fd, fds)

\* What run_commands has done on the line includes a ccon that got a socket
\* and closed it again after the connection failed.
C36_Witness ==
  /\ process_list # <<>>
  /\ server_fd = -1
  /\ SocketsIn(fds) = {}
  /\ \E j \in EvIdx("builtin") :
       /\ VerbOf(j) = "ccon"
       /\ j + 4 <= Len(events)
       /\ events[j + 1].ev = "socket"
       /\ events[j + 2].ev = "connect"
       /\ events[j + 4] = Effect("close", events[j + 1].arg)

====
